---- MODULE Spec2Model ----
(***************************************************************************)
(* Witness generation (VmProcessor) and the Analyzed IR of powdr.          *)
(*                                                                         *)
(* Part 1: the VM processor's row loop (executor/src/witgen/vm_processor). *)
(* Part 2: the Analyzed program and its order-preserving operations        *)
(*         (ast/src/analyzed/mod.rs, pil_analyzer/src/pil_analyzer.rs).    *)
(***************************************************************************)
EXTENDS Integers, Sequences, FiniteSets, TLC

(***************************************************************************)
(* Field arithmetic: a small prime field stands for FieldElement.          *)
(***************************************************************************)
Modulus == 13

FAdd(a, b) == (a + b) % Modulus
FSub(a, b) == (a + Modulus - b) % Modulus
FMul(a, b) == (a * b) % Modulus
FNeg(a) == (Modulus - a) % Modulus
FInv(a) == CHOOSE x \in 1..(Modulus - 1) : (a * x) % Modulus = 1

(***************************************************************************)
(* Program constants of the VM processor.                                  *)
(***************************************************************************)
MAX_PERIOD == 4
LoopCheckInterval == 100
FinalizeInterval == 10000

(* Degree of the long machines (long enough for one loop detection). *)
LongDegree == 103

(* Degree of the machines that run long enough for two finalizations. *)
VeryLongDegree == 20000

(* The number of rows before the end of an interval of 10,000 rows that the
   long runs are followed from. *)
RowsBeforeInterval == 12

(***************************************************************************)
(* Algebraic expressions, as tuples:                                       *)
(*   <<"num", n>>          field constant                                  *)
(*   <<"w", col, next>>    reference to a witness column (next in {0,1})   *)
(*   <<"f", col, next>>    reference to a fixed column                     *)
(*   <<"add"|"sub"|"mul", l, r>>    binary operation                       *)
(***************************************************************************)
Num(n) == <<"num", n>>
W(c) == <<"w", c, 0>>
WN(c) == <<"w", c, 1>>
F(c) == <<"f", c, 0>>
FN(c) == <<"f", c, 1>>
Add(l, r) == <<"add", l, r>>
Sub(l, r) == <<"sub", l, r>>
Mul(l, r) == <<"mul", l, r>>
NoExpr == <<"none">>

IsLeaf(e) == e[1] \in {"num", "w", "f", "none"}

(* variant: only references to the next row of a witness column count
   (contains_next_witness_ref) *)
RECURSIVE ExprContainsNextWitnessRef(_)
ExprContainsNextWitnessRef(e) ==
    IF e[1] = "w" THEN e[3] = 1
    ELSE IF IsLeaf(e) THEN FALSE
    ELSE ExprContainsNextWitnessRef(e[2]) \/ ExprContainsNextWitnessRef(e[3])

(* AlgebraicExpression::contains_next_ref *)
RECURSIVE ExprContainsNextRef(_)
ExprContainsNextRef(e) ==
    IF e[1] \in {"w", "f"} THEN e[3] = 1
    ELSE IF IsLeaf(e) THEN FALSE
    ELSE ExprContainsNextRef(e[2]) \/ ExprContainsNextRef(e[3])

(* SelectedExpressions::contains_next_ref *)
SelContainsNextRef(sel) ==
    \/ ExprContainsNextRef(sel.selector)
    \/ \E i \in 1..Len(sel.expressions) : ExprContainsNextRef(sel.expressions[i])

(* Identity::contains_next_ref *)
ContainsNextRef(id) == SelContainsNextRef(id.left) \/ SelContainsNextRef(id.right)

PolyIdentity(e) ==
    [kind |-> "Polynomial",
     left |-> [selector |-> e, expressions |-> <<>>],
     right |-> [selector |-> NoExpr, expressions |-> <<>>]]

Plookup(l, r) ==
    [kind |-> "Plookup",
     left |-> [selector |-> NoExpr, expressions |-> <<l>>],
     right |-> [selector |-> NoExpr, expressions |-> <<r>>]]

(***************************************************************************)
(* Cells and rows.                                                         *)
(***************************************************************************)
Known(v) == [k |-> "Known", v |-> v]
Unknown == [k |-> "Unknown", v |-> 0]
RangeConstraint(mask) == [k |-> "RangeConstraint", v |-> mask]

IsKnown(cell) == cell.k = "Known"

(***************************************************************************)
(* Affine expressions over the unknown cells.  A variable is <<name, k>>:  *)
(* k = 0 a witness cell of the current row, k = 1 of the next row, k = 2   *)
(* a polynomial of the caller (outer query).                               *)
(***************************************************************************)
AffErr == [err |-> TRUE, c |-> 0, co |-> <<>>]
AffConst(n) == [err |-> FALSE, c |-> n % Modulus, co |-> <<>>]
AffVar(v) == [err |-> FALSE, c |-> 0, co |-> (v :> 1)]

Coeff(a, v) == IF v \in DOMAIN a.co THEN a.co[v] ELSE 0

AffLin(a, x, b, y) ==
    LET D == DOMAIN a.co \cup DOMAIN b.co
        s(v) == FAdd(FMul(x, Coeff(a, v)), FMul(y, Coeff(b, v)))
    IN [err |-> FALSE,
        c |-> FAdd(FMul(x, a.c), FMul(y, b.c)),
        co |-> [v \in {w \in D : s(w) # 0} |-> s(v)]]

AffIsConst(a) == ~a.err /\ DOMAIN a.co = {}
AffIsZero(a) == AffIsConst(a) /\ a.c = 0

(***************************************************************************)
(* RowPair::evaluate.  pr = [cur, nxt, single, row, strat]: the current    *)
(* and next row, whether the pair was built by from_single_row, the        *)
(* absolute row index and the UnknownStrategy ("Unknown" or "Zero").       *)
(***************************************************************************)
RowPairNew(cur, nxt, row, strat) ==
    [cur |-> cur, nxt |-> nxt, single |-> FALSE, row |-> row, strat |-> strat]

RowPairFromSingleRow(cur, row, strat) ==
    [cur |-> cur, nxt |-> cur, single |-> TRUE, row |-> row, strat |-> strat]

FixedAt(p, col, row) == p.fixed[col][row % p.degree]

EvalWitness(pr, col, next) ==
    IF next = 1 /\ pr.single THEN AffErr
    ELSE LET cell == IF next = 0 THEN pr.cur[col] ELSE pr.nxt[col]
         IN IF IsKnown(cell) THEN AffConst(cell.v)
            ELSE IF pr.strat = "Zero" THEN AffConst(0)
            ELSE AffVar(<<col, next>>)

AffMul(l, r) ==
    IF (~l.err /\ AffIsZero(l)) \/ (~r.err /\ AffIsZero(r)) THEN AffConst(0)
    ELSE IF l.err \/ r.err THEN AffErr
    ELSE IF AffIsConst(l) THEN AffLin(r, l.c, AffConst(0), 0)
    ELSE IF AffIsConst(r) THEN AffLin(l, r.c, AffConst(0), 0)
    ELSE AffErr

AffAddSub(l, r, y) == IF l.err \/ r.err THEN AffErr ELSE AffLin(l, 1, r, y)

RECURSIVE Evaluate(_, _, _)
Evaluate(p, pr, e) ==
    CASE e[1] = "num" -> AffConst(e[2])
      [] e[1] = "w" -> EvalWitness(pr, e[2], e[3])
      [] e[1] = "f" -> AffConst(FixedAt(p, e[2], pr.row + e[3]))
      [] e[1] = "mul" -> AffMul(Evaluate(p, pr, e[2]), Evaluate(p, pr, e[3]))
      [] e[1] = "add" -> AffAddSub(Evaluate(p, pr, e[2]), Evaluate(p, pr, e[3]), 1)
      [] e[1] = "sub" -> AffAddSub(Evaluate(p, pr, e[2]), Evaluate(p, pr, e[3]), Modulus - 1)
      [] OTHER -> AffErr

(***************************************************************************)
(* Solving an affine expression "a = 0".  The result is an EvalResult:     *)
(* err (the constraint is violated), complete, constraints (assignments    *)
(* <<variable, value>>).                                                   *)
(***************************************************************************)
EvalOk(complete, cs) == [err |-> FALSE, complete |-> complete, constraints |-> cs]
EvalErr == [err |-> TRUE, complete |-> FALSE, constraints |-> <<>>]

SolveFor(a, v) == EvalOk(TRUE, << <<v, FMul(FNeg(a.c), FInv(a.co[v]))>> >>)

Solve(a) ==
    IF a.err THEN EvalOk(FALSE, <<>>)
    ELSE IF DOMAIN a.co = {} THEN (IF a.c = 0 THEN EvalOk(TRUE, <<>>) ELSE EvalErr)
    ELSE IF Cardinality(DOMAIN a.co) = 1
         THEN SolveFor(a, CHOOSE w \in DOMAIN a.co : TRUE)
    ELSE EvalOk(FALSE, <<>>)

(* A machine call is a lookup of one expression (value l) into one fixed column. *)
LookupValue(p, l, col) ==
    IF AffIsConst(l)
    THEN (IF \E r \in 0..(p.degree - 1) : p.fixed[col][r] = l.c
          THEN EvalOk(TRUE, <<>>) ELSE EvalErr)
    ELSE EvalOk(FALSE, <<>>)

ProcessPlookup(p, pr, id) ==
    LookupValue(p, Evaluate(p, pr, id.left.expressions[1]), id.right.expressions[1][2])

(* IdentityProcessor::process_identity *)
ProcessIdentity(p, pr, id) ==
    IF id.kind = "Polynomial" THEN Solve(Evaluate(p, pr, id.left.selector))
    ELSE ProcessPlookup(p, pr, id)

(***************************************************************************)
(* The VM processor.  A processor state st is a record                     *)
(*   data  the rows (data[i + 1] is row i),                                *)
(*   left  the left side of the outer query (affine expressions),          *)
(*   psi   previously_set_inputs (column -> start row).                    *)
(* A machine p is a record: degree, row_offset, witnesses, fresh (the      *)
(* cell values of a fresh row), fixed, identities, query, has_outer,       *)
(* outer_left, outer_right.                                                *)
(***************************************************************************)
RowOf(st, i) == st.data[i + 1]

SetCell(d, i, col, cell) ==
    [d EXCEPT ![i + 1] = [@ EXCEPT ![col] = cell]]

(* RowFactory::fresh_row *)
FreshRow(p) == p.fresh

(* AffineExpression::assign on the caller's expressions *)
AssignOuter(l, v, val) ==
    IF v \in DOMAIN l.co
    THEN [err |-> FALSE,
          c |-> FAdd(l.c, FMul(l.co[v], val)),
          co |-> [w \in (DOMAIN l.co) \ {v} |-> l.co[w]]]
    ELSE l

IsWitnessVar(p, v) == v[2] # 2 /\ v[1] \in p.witnesses

(* RowUpdater::apply_update / OuterQuery left assignment, one constraint *)
ApplyUpdate(p, st, row_index, c) ==
    IF IsWitnessVar(p, c[1])
    THEN [st EXCEPT !.data = SetCell(st.data, row_index + c[1][2], c[1][1], Known(c[2]))]
    ELSE [st EXCEPT !.left = [i \in DOMAIN st.left |-> AssignOuter(st.left[i], c[1], c[2])]]

RECURSIVE ApplyAll(_, _, _, _, _)
ApplyAll(p, st, row_index, cs, i) ==
    IF i > Len(cs) THEN st
    ELSE ApplyAll(p, ApplyUpdate(p, st, row_index, cs[i]), row_index, cs, i + 1)

(* variant: every update counts as progress *)
ApplyUpdatesFlagAlways(cs) == TRUE

(* VmProcessor::apply_updates: the returned flag and the new state *)
ApplyUpdatesFlag(cs) == Len(cs) > 0

ApplyUpdates(p, st, row_index, cs) == ApplyAll(p, st, row_index, cs, 1)

(* The identities of the machine with / without a reference to the next row
   (VmProcessor::new), as sequences of indices into p.identities. *)
RECURSIVE SelectIdx(_, _, _)
SelectIdx(p, withNext, i) ==
    IF i = 0 THEN <<>>
    ELSE IF ContainsNextRef(p.identities[i]) = withNext
         THEN Append(SelectIdx(p, withNext, i - 1), i)
         ELSE SelectIdx(p, withNext, i - 1)

IdentitiesWithNextRef(p) == SelectIdx(p, TRUE, Len(p.identities))
IdentitiesWithoutNextRef(p) == SelectIdx(p, FALSE, Len(p.identities))

(* VmProcessor::latch_value: "none", "true" or "false" *)
LatchOf(l) == IF AffIsConst(l) THEN (IF l.c = 1 THEN "true" ELSE "false") ELSE "none"

LatchValue(p, st, row_index) ==
    IF ~p.has_outer \/ p.outer_right.selector = NoExpr THEN "none"
    ELSE LatchOf(Evaluate(p, RowPairFromSingleRow(RowOf(st, row_index),
                                  row_index + p.row_offset, "Unknown"),
                          p.outer_right.selector))

(* VmProcessor::ensure_has_next_row; the assertion is AssertHasRow *)
AssertHasRow(st, row_index) == Len(st.data) > row_index

EnsureHasNextRow(p, st, row_index) ==
    IF row_index = Len(st.data) - 1
    THEN [st EXCEPT !.data = Append(st.data, FreshRow(p))]
    ELSE st

(***************************************************************************)
(* VmProcessor::process_identities: one sweep over the identities ids      *)
(* (indices), skipping the completed ones.  The sweep works on a record    *)
(* acc: st, done (completed identities), progress, err.                    *)
(***************************************************************************)
IdentityResult(p, acc, row_index, strat, k, res) ==
    IF res.err THEN [acc EXCEPT !.err = TRUE]
    ELSE IF strat = "Zero" THEN acc
    ELSE [st |-> ApplyUpdates(p, acc.st, row_index, res.constraints),
          done |-> IF res.complete THEN acc.done \cup {k} ELSE acc.done,
          progress |-> acc.progress \/ ApplyUpdatesFlag(res.constraints),
          err |-> acc.err]

(* variant: under strategy Zero a machine call is handed on like any identity *)
ProcessOneIdentityForward(p, acc, row_index, strat, k) ==
    IF k \in acc.done THEN acc
    ELSE IdentityResult(p, acc, row_index, strat, k,
             ProcessIdentity(p,
                 RowPairNew(RowOf(acc.st, row_index), RowOf(acc.st, row_index + 1),
                            row_index + p.row_offset, strat),
                 p.identities[k]))

(* variant: under strategy Zero every identity that is not complete is an error *)
ProcessOneIdentityStrict(p, acc, row_index, strat, k) ==
    IF k \in acc.done THEN acc
    ELSE IF strat = "Zero"
    THEN [acc EXCEPT !.err = TRUE]
    ELSE IdentityResult(p, acc, row_index, strat, k,
             ProcessIdentity(p,
                 RowPairNew(RowOf(acc.st, row_index), RowOf(acc.st, row_index + 1),
                            row_index + p.row_offset, strat),
                 p.identities[k]))

ProcessOneIdentity(p, acc, row_index, strat, k) ==
    IF k \in acc.done THEN acc
    ELSE IF p.identities[k].kind # "Polynomial" /\ strat = "Zero"
    THEN [acc EXCEPT !.err = TRUE]
    ELSE IdentityResult(p, acc, row_index, strat, k,
             ProcessIdentity(p,
                 RowPairNew(RowOf(acc.st, row_index), RowOf(acc.st, row_index + 1),
                            row_index + p.row_offset, strat),
                 p.identities[k]))

RECURSIVE ProcessIdentitiesFrom(_, _, _, _, _, _)
ProcessIdentitiesFrom(p, acc, row_index, ids, strat, i) ==
    IF i > Len(ids) THEN acc
    ELSE ProcessIdentitiesFrom(p, ProcessOneIdentity(p, acc, row_index, strat, ids[i]),
                               row_index, ids, strat, i + 1)

ProcessIdentities(p, st, row_index, ids, done, strat) ==
    ProcessIdentitiesFrom(p, [st |-> st, done |-> done, progress |-> FALSE, err |-> FALSE],
                          row_index, ids, strat, 1)

(* Concatenation of the constraint lists f[1] \o ... \o f[n] *)
RECURSIVE Flatten(_, _)
Flatten(f, n) == IF n = 0 THEN <<>> ELSE Flatten(f, n - 1) \o f[n].constraints

(* IdentityProcessor::process_link: one equation left[i] - right[i] = 0 per
   pair, all evaluated on the same row pair. *)
LinkEquation(l, r) ==
    IF r.err THEN EvalOk(FALSE, <<>>) ELSE Solve(AffLin(l, 1, r, Modulus - 1))

LinkResult(res) ==
    IF \E i \in DOMAIN res : res[i].err THEN EvalErr
    ELSE EvalOk(\A i \in DOMAIN res : res[i].complete, Flatten(res, Len(res)))

ProcessLink(p, lhs, pr) ==
    LinkResult([i \in 1..Len(lhs) |->
                  LinkEquation(lhs[i], Evaluate(p, pr, p.outer_right.expressions[i]))])

IsOuterConstraint(p, c) == ~IsWitnessVar(p, c[1])

(* variant: every constraint of the link is reported as an outer assignment *)
OuterQueryResultUnfiltered(p, st, row_index, updates) ==
    IF updates.err
    THEN [st |-> st, progress |-> FALSE, oa |-> <<>>, err |-> TRUE]
    ELSE [st |-> ApplyUpdates(p, st, row_index, updates.constraints),
          progress |-> ApplyUpdatesFlag(updates.constraints),
          oa |-> updates.constraints,
          err |-> FALSE]

(* VmProcessor::process_outer_query.  Result: st, progress, oa, err. *)
OuterQueryResult(p, st, row_index, updates) ==
    IF updates.err
    THEN [st |-> st, progress |-> FALSE, oa |-> <<>>, err |-> TRUE]
    ELSE [st |-> ApplyUpdates(p, st, row_index, updates.constraints),
          progress |-> ApplyUpdatesFlag(updates.constraints),
          oa |-> SelectSeq(updates.constraints, LAMBDA c : IsOuterConstraint(p, c)),
          err |-> FALSE]

ProcessOuterQuery(p, st, row_index) ==
    OuterQueryResult(p, st, row_index,
        ProcessLink(p, st.left,
            RowPairNew(RowOf(st, row_index), RowOf(st, row_index + 1),
                       (row_index + p.row_offset) % p.degree, "Unknown")))

(* VmProcessor::with_outer_query: the inputs, column -> value *)
IsInputPair(p, i) ==
    /\ p.outer_right.expressions[i][1] = "w"
    /\ p.outer_right.expressions[i][3] = 0
    /\ AffIsConst(p.outer_left[i])

IsInputFor(p, i, c) == IsInputPair(p, i) /\ p.outer_right.expressions[i][2] = c

LastInputFor(p, c) ==
    CHOOSE i \in 1..Len(p.outer_left) :
       IsInputFor(p, i, c) /\ \A j \in (i + 1)..Len(p.outer_left) : ~IsInputFor(p, j, c)

Inputs(p) ==
    IF ~p.has_outer THEN <<>>
    ELSE [c \in {d \in p.witnesses : \E i \in 1..Len(p.outer_left) : IsInputFor(p, i, d)}
            |-> p.outer_left[LastInputFor(p, c)].c]

(* VmProcessor::set_inputs_if_unset.  todo: the inputs that get assigned;
   the returned flag is todo # {}. *)
InputsToSet(p, st, row_index) ==
    {c \in DOMAIN Inputs(p) : ~IsKnown(RowOf(st, row_index)[c])}

IsRolledBack(st, row_index, todo, c, r) ==
    c \in todo /\ c \in DOMAIN st.psi /\ st.psi[c] <= r /\ r < row_index

(* variant: the rows before row_index keep the values of the input *)
SetInputsNoRollback(p, st, row_index, todo, inputs) ==
    [st EXCEPT
       !.data[row_index + 1] =
           [c \in p.witnesses |-> IF c \in todo THEN Known(inputs[c]) ELSE @[c]],
       !.psi = [c \in (DOMAIN st.psi) \cup todo |->
                  IF c \in todo THEN row_index ELSE st.psi[c]]]

SetInputs(p, st, row_index, todo, inputs) ==
    IF todo = {} THEN st
    ELSE [st EXCEPT
            !.data = [i \in 1..Len(st.data) |->
                        [c \in p.witnesses |->
                           IF i - 1 = row_index /\ c \in todo THEN Known(inputs[c])
                           ELSE IF IsRolledBack(st, row_index, todo, c, i - 1) THEN Unknown
                           ELSE st.data[i][c]]],
            !.psi = [c \in (DOMAIN st.psi) \cup todo |->
                       IF c \in todo THEN row_index ELSE st.psi[c]]]

SetInputsIfUnset(p, st, row_index) ==
    SetInputs(p, st, row_index, InputsToSet(p, st, row_index), Inputs(p))

(* The query callback: the answer for column c at a row, -1 for None. *)
QueryCallback(p, c, row) == p.query[c][row % p.degree]

(* QueryProcessor::process_query over all relevant witness columns: the
   columns that get a value from the callback. *)
QueryAnswers(p, st, row_index) ==
    {c \in DOMAIN p.query :
        /\ ~IsKnown(RowOf(st, row_index)[c])
        /\ QueryCallback(p, c, row_index + p.row_offset) >= 0}

SetAnswers(p, st, row_index, ans) ==
    [st EXCEPT !.data[row_index + 1] =
       [c \in p.witnesses |->
          IF c \in ans THEN Known(QueryCallback(p, c, row_index + p.row_offset))
          ELSE @[c]]]

ApplyQueries(p, st, row_index) ==
    SetAnswers(p, st, row_index, QueryAnswers(p, st, row_index))

(***************************************************************************)
(* VmProcessor::loop_until_no_progress.  One iteration of the loop runs    *)
(* the four stages on a record it: st, done, oa (outer assignments),       *)
(* progress, err.                                                          *)
(***************************************************************************)
IterStart(st, done, oa) ==
    [st |-> st, done |-> done, oa |-> oa, progress |-> FALSE, err |-> FALSE]

AfterIdentities(it, r) ==
    [it EXCEPT !.st = r.st, !.done = r.done, !.progress = r.progress, !.err = r.err]

AfterOuterQuery(it, r) ==
    [it EXCEPT !.st = r.st, !.oa = it.oa \o r.oa,
               !.progress = it.progress \/ r.progress, !.err = r.err]

StageOuterQuery(p, it, row_index) ==
    IF ~it.err /\ LatchValue(p, it.st, row_index) = "true"
    THEN AfterOuterQuery(it, ProcessOuterQuery(p, it.st, row_index))
    ELSE it

StageInputs(p, it, row_index) ==
    IF it.err THEN it
    ELSE [it EXCEPT !.st = SetInputsIfUnset(p, it.st, row_index),
                    !.progress = it.progress \/ InputsToSet(p, it.st, row_index) # {}]

StageQueries(p, it, row_index) ==
    IF it.err THEN it
    ELSE [it EXCEPT !.st = ApplyQueries(p, it.st, row_index),
                    !.progress = it.progress \/ QueryAnswers(p, it.st, row_index) # {}]

LoopIteration(p, it, row_index, ids) ==
    StageQueries(p,
      StageInputs(p,
        StageOuterQuery(p,
          AfterIdentities(it,
            ProcessIdentities(p, it.st, row_index, ids, it.done, "Unknown")),
          row_index),
        row_index),
      row_index)

RECURSIVE LoopFrom(_, _, _, _)
LoopFrom(p, it, row_index, ids) ==
    IF it.err \/ ~it.progress THEN it
    ELSE LoopFrom(p, LoopIteration(p, it, row_index, ids), row_index, ids)

LoopUntilNoProgress(p, st, row_index, ids) ==
    LoopFrom(p, LoopIteration(p, IterStart(st, {}, <<>>), row_index, ids), row_index, ids)

(***************************************************************************)
(* VmProcessor::compute_row.  Result: st, oa, status, where status is      *)
(* "ok", "unsatisfiable" or "underconstrained" (the two panics).           *)
(***************************************************************************)
(* variant: the second group of identities is not re-evaluated *)
ZeroCheckFailsFirstOnly(p, st, row_index, done1, done2) ==
    ProcessIdentities(p, st, row_index, IdentitiesWithoutNextRef(p), done1, "Zero").err

ZeroCheckFails(p, st, row_index, done1, done2) ==
    \/ ProcessIdentities(p, st, row_index, IdentitiesWithoutNextRef(p), done1, "Zero").err
    \/ ProcessIdentities(p, st, row_index, IdentitiesWithNextRef(p), done2, "Zero").err

RowResult(st, oa, status) == [st |-> st, oa |-> oa, status |-> status]

(* variant: no check that the unknown values can be set to 0 *)
AfterPass2NoZeroCheck(p, row_index, l1, l2) ==
    IF l2.err THEN RowResult(l2.st, <<>>, "unsatisfiable")
    ELSE RowResult(l2.st, l1.oa \o l2.oa, "ok")

AfterPass2(p, row_index, l1, l2) ==
    IF l2.err THEN RowResult(l2.st, <<>>, "unsatisfiable")
    ELSE IF ~p.has_outer /\ ZeroCheckFails(p, l2.st, row_index, l1.done, l2.done)
    THEN RowResult(l2.st, <<>>, "underconstrained")
    ELSE RowResult(l2.st, l1.oa \o l2.oa, "ok")

AfterPass1(p, row_index, l1) ==
    IF l1.err THEN RowResult(l1.st, <<>>, "unsatisfiable")
    ELSE AfterPass2(p, row_index, l1,
                    LoopUntilNoProgress(p, l1.st, row_index, IdentitiesWithNextRef(p)))

ComputeRow(p, st, row_index) ==
    AfterPass1(p, row_index,
               LoopUntilNoProgress(p, st, row_index, IdentitiesWithoutNextRef(p)))

(***************************************************************************)
(* VmProcessor::rows_are_repeating: the period found, 0 for None.          *)
(***************************************************************************)
RowsEqual(a, b) == \A c \in DOMAIN a : a[c] = b[c]

PeriodMatches(st, row, period) ==
    \A i \in 1..period : RowsEqual(RowOf(st, row - i - period), RowOf(st, row - i))

SmallestOf(found) ==
    IF found = {} THEN 0 ELSE CHOOSE period \in found : \A q \in found : period <= q

RowsAreRepeating(st, row_index) ==
    IF row_index < MAX_PERIOD THEN 0
    ELSE SmallestOf({period \in 1..(MAX_PERIOD - 1) : PeriodMatches(st, row_index, period)})

(* the rows rows_are_repeating reads: `find` stops at the first period that
   repeats, `all` at the first pair of rows that differ *)
PairsCompared(st, row, period) ==
    {i \in 1..period :
        \A j \in 1..(i - 1) : RowsEqual(RowOf(st, row - j - period), RowOf(st, row - j))}

PeriodsTried(st, row) ==
    {period \in 1..(MAX_PERIOD - 1) : \A q \in 1..(period - 1) : ~PeriodMatches(st, row, q)}

RowsReadByLoopDetection(st, row_index) ==
    IF row_index < MAX_PERIOD THEN {}
    ELSE UNION {UNION {{row_index - i - period, row_index - i} :
                          i \in PairsCompared(st, row_index, period)} :
                   period \in PeriodsTried(st, row_index)}

(***************************************************************************)
(* FinalizableData: the finalized ranges of rows, each [from, to).  A row  *)
(* of a finalized range is in compressed form and is not indexed again.    *)
(***************************************************************************)
FinalizeRange(fin, from, to) == Append(fin, [from |-> from, to |-> to])

IsFinalized(fin, r) == \E k \in DOMAIN fin : fin[k].from <= r /\ r < fin[k].to

TouchesFinalized(fin, rows) == \E r \in rows : IsFinalized(fin, r)

(* indexing a finalized row ends the run *)
Indexed(res, fin, rows) ==
    IF TouchesFinalized(fin, rows) THEN [res EXCEPT !.status = "row_finalized"] ELSE res

(* set_inputs_if_unset, lines 515-526: the rows an input is reset on when it
   is assigned again while row is computed *)
RolledBackRows(old_psi, new_psi, row) ==
    UNION {old_psi[c]..(row - 1) : c \in {d \in DOMAIN old_psi : new_psi[d] # old_psi[d]}}

(***************************************************************************)
(* VmProcessor::check_row_pair                                             *)
(***************************************************************************)
AllHold(p, pr, ids) ==
    \A i \in 1..Len(ids) : ~ProcessIdentity(p, pr, p.identities[ids[i]]).err

(* variant: only the proposed row alone is checked *)
CheckRowPairCurrentOnly(p, st, row_index, proposed_row, previous) ==
    previous \/ AllHold(p, RowPairFromSingleRow(proposed_row, row_index + p.row_offset, "Zero"),
                        IdentitiesWithoutNextRef(p))

CheckRowPair(p, st, row_index, proposed_row, previous) ==
    IF previous
    THEN AllHold(p, RowPairNew(RowOf(st, row_index - 1), proposed_row,
                               row_index + p.row_offset - 1, "Zero"),
                 IdentitiesWithNextRef(p))
    ELSE AllHold(p, RowPairFromSingleRow(proposed_row, row_index + p.row_offset, "Zero"),
                 IdentitiesWithoutNextRef(p))

(***************************************************************************)
(* VmProcessor::try_proposed_row.  Result: st, valid, status ("ok", a      *)
(* panic of the re-run compute_row, or "assert_failed").                   *)
(***************************************************************************)
ConstraintsValid(p, st, row_index, proposed_row) ==
    /\ CheckRowPair(p, st, row_index, proposed_row, FALSE)
    /\ CheckRowPair(p, st, row_index, proposed_row, TRUE)

ProposalResult(st, valid, status) == [st |-> st, valid |-> valid, status |-> status]

(* variant: the proposed row is always pushed *)
CommitProposedRowAlwaysPush(st, row_index, proposed_row) ==
    ProposalResult([st EXCEPT !.data = Append(st.data, proposed_row)], TRUE, "ok")

CommitProposedRow(st, row_index, proposed_row) ==
    IF row_index = Len(st.data) - 1
    THEN ProposalResult([st EXCEPT !.data[row_index + 1] = proposed_row], TRUE, "ok")
    ELSE IF row_index = Len(st.data)
    THEN ProposalResult([st EXCEPT !.data = Append(st.data, proposed_row)], TRUE, "ok")
    ELSE ProposalResult(st, TRUE, "assert_failed")

Rejected(r) == ProposalResult(r.st, FALSE, r.status)

(* variant: a rejected proposal leaves the rows as they are *)
TryProposedRowNoRerun(p, st, row_index, proposed_row) ==
    IF ConstraintsValid(p, st, row_index, proposed_row)
    THEN CommitProposedRow(st, row_index, proposed_row)
    ELSE ProposalResult(st, FALSE, "ok")

TryProposedRow(p, st, row_index, proposed_row) ==
    IF ConstraintsValid(p, st, row_index, proposed_row)
    THEN CommitProposedRow(st, row_index, proposed_row)
    ELSE IF ~AssertHasRow(st, row_index - 1)
    THEN ProposalResult(st, FALSE, "assert_failed")
    ELSE Rejected(ComputeRow(p, EnsureHasNextRow(p, st, row_index - 1), row_index - 1))

(***************************************************************************)
(* The machines the processor is run on.                                   *)
(***************************************************************************)
Ind(d, r0) == [r \in 0..(d - 1) |-> IF r = r0 THEN 1 ELSE 0]

NoOuterRight == [selector |-> NoExpr, expressions |-> <<>>]

Primary(name, degree, offset, fresh, fixed, identities) ==
    [name |-> name, degree |-> degree, row_offset |-> offset,
     witnesses |-> DOMAIN fresh, fresh |-> fresh, fixed |-> fixed,
     identities |-> identities, query |-> <<>>,
     has_outer |-> FALSE, outer_left |-> <<>>, outer_right |-> NoOuterRight]

Secondary(name, degree, fresh, fixed, identities, left, right) ==
    [name |-> name, degree |-> degree, row_offset |-> 0,
     witnesses |-> DOMAIN fresh, fresh |-> fresh, fixed |-> fixed,
     identities |-> identities, query |-> <<>>,
     has_outer |-> TRUE, outer_left |-> left, outer_right |-> right]

One == Num(1)

(* x*(x-1) = 0 *)
Scenario1 ==
    Primary("scenario1", 4, 0, [x |-> RangeConstraint(1)], <<>>,
            << PolyIdentity(Mul(W("x"), Sub(W("x"), One))) >>)

(* (1-first)*(a' - a - 1) = 0; first*a = 0 *)
Scenario2 ==
    Primary("scenario2", 4, 0, [a |-> Unknown], [first |-> Ind(4, 0)],
            << PolyIdentity(Mul(Sub(One, F("first")), Sub(Sub(WN("a"), W("a")), One))),
               PolyIdentity(Mul(F("first"), W("a"))) >>)

(* (1-first')*(a' - a - 1) + first'*a' = 0; first*a = 0 *)
Counter ==
    Primary("counter", 4, 0, [a |-> Unknown], [first |-> Ind(4, 0)],
            << PolyIdentity(Add(Mul(Sub(One, FN("first")), Sub(Sub(WN("a"), W("a")), One)),
                                Mul(FN("first"), WN("a")))),
               PolyIdentity(Mul(F("first"), W("a"))) >>)


(* a + b - 1 = 0 *)
TwoUnknowns ==
    Primary("two_unknowns", 4, 0, [a |-> Unknown, b |-> Unknown], <<>>,
            << PolyIdentity(Sub(Add(W("a"), W("b")), One)) >>)

(* a - 1 = 0; a - 2 = 0 *)
Contradiction ==
    Primary("contradiction", 4, 0, [a |-> Unknown], <<>>,
            << PolyIdentity(Sub(W("a"), One)), PolyIdentity(Sub(W("a"), Num(2))) >>)

(* a' - a = 0; sel*(a - 1) = 0 with sel = [0, 1, 0, 0] *)
LateKnown ==
    Primary("late_known", 4, 0, [a |-> Unknown], [sel |-> Ind(4, 1)],
            << PolyIdentity(Sub(WN("a"), W("a"))),
               PolyIdentity(Mul(F("sel"), Sub(W("a"), One))) >>)

(* the same machine, started at row 1 *)
LateKnownOffset ==
    [LateKnown EXCEPT !.name = "late_known_offset", !.row_offset = 1]

(* { x } in { t } with nothing else known about x *)
OpenLookup ==
    Primary("open_lookup", 4, 0, [x |-> Unknown], [t |-> Ind(4, 1)],
            << Plookup(W("x"), F("t")) >>)

(* x - t = 0; { x } in { t } *)
ClosedLookup ==
    Primary("closed_lookup", 4, 0, [x |-> Unknown], [t |-> Ind(4, 1)],
            << PolyIdentity(Sub(W("x"), F("t"))), Plookup(W("x"), F("t")) >>)

(* a witness column with a query; the callback answers 3, 1, 4, 1 *)
Queried ==
    [Primary("queried", 4, 0, [pc |-> Unknown], <<>>, <<>>)
       EXCEPT !.query = [pc |-> [r \in 0..3 |-> IF r = 0 THEN 3 ELSE IF r = 2 THEN 4 ELSE 1]]]

(* a' - a - 1 = 0; first*a = 0: a counts up and does not wrap around *)
WrapMismatch ==
    Primary("wrap_mismatch", 4, 0, [a |-> Unknown], [first |-> Ind(4, 0)],
            << PolyIdentity(Sub(Sub(WN("a"), W("a")), One)),
               PolyIdentity(Mul(F("first"), W("a"))) >>)

(* a' - a = 0; first*a = 0: all rows equal *)
Stable ==
    Primary("stable", LongDegree, 0, [a |-> Unknown], [first |-> Ind(LongDegree, 0)],
            << PolyIdentity(Sub(WN("a"), W("a"))),
               PolyIdentity(Mul(F("first"), W("a"))) >>)

(* (1-last)*(a' - a) + last*(a' - 1) = 0; first*a = 0, last on the last row:
   the wrap-around row differs from the loop *)
BrokenAtEnd ==
    Primary("broken_at_end", LongDegree, 0, [a |-> Unknown],
            [first |-> Ind(LongDegree, 0), last |-> Ind(LongDegree, LongDegree - 1)],
            << PolyIdentity(Add(Mul(Sub(One, F("last")), Sub(WN("a"), W("a"))),
                                Mul(F("last"), Sub(WN("a"), One)))),
               PolyIdentity(Mul(F("first"), W("a"))) >>)

(* a' - a = 0; first*a = 0; sel*(b - 1) = 0 with sel on row 101 *)
BrokenInside ==
    Primary("broken_inside", LongDegree, 0, [a |-> Unknown, b |-> Unknown],
            [first |-> Ind(LongDegree, 0), sel |-> Ind(LongDegree, LoopCheckInterval + 1)],
            << PolyIdentity(Sub(WN("a"), W("a"))),
               PolyIdentity(Mul(F("first"), W("a"))),
               PolyIdentity(Mul(F("sel"), Sub(W("b"), One))) >>)

(* a' + a - 1 = 0; first*a = 0: period 2 *)
Alternating ==
    Primary("alternating", LongDegree, 0, [a |-> Unknown], [first |-> Ind(LongDegree, 0)],
            << PolyIdentity(Sub(Add(WN("a"), W("a")), One)),
               PolyIdentity(Mul(F("first"), W("a"))) >>)

(* a - pat = 0 with pat = 0, 1, 2, 0, 1, 2, ...: period 3 *)
PeriodThree ==
    Primary("period_three", LongDegree, 0, [a |-> Unknown],
            [pat |-> [r \in 0..(LongDegree - 1) |-> r % 3]],
            << PolyIdentity(Sub(W("a"), F("pat"))) >>)

(* a - pat = 0 with pat = 0, 1, 2, 3, 0, 1, 2, 3, ...: period 4 *)
PeriodFour ==
    Primary("period_four", LongDegree, 0, [a |-> Unknown],
            [pat |-> [r \in 0..(LongDegree - 1) |-> r % MAX_PERIOD]],
            << PolyIdentity(Sub(W("a"), F("pat"))) >>)

OuterX == <<"X", 2>>
OuterY == <<"Y", 2>>

BlockIdentities ==
    << PolyIdentity(Sub(W("ret"), F("lat"))),
       PolyIdentity(Sub(Sub(W("y"), W("x")), One)),
       PolyIdentity(Sub(WN("x"), W("x"))) >>

BlockFresh == [ret |-> Unknown, x |-> Unknown, y |-> Unknown]

BlockRight == [selector |-> W("ret"), expressions |-> << W("x"), W("y") >>]

(* caller: { 3, Y } in ret { x, y }; ret = lat, y = x + 1, x' = x *)
Block ==
    Secondary("block", 4, BlockFresh, [lat |-> Ind(4, 2)], BlockIdentities,
              << AffConst(3), AffVar(OuterY) >>, BlockRight)

(* caller: { X, Y } in ret { x, y }; ret = lat, y = 5 *)
BlockNoInput ==
    Secondary("block_no_input", 4, BlockFresh, [lat |-> Ind(4, 2)],
              << PolyIdentity(Sub(W("ret"), F("lat"))), PolyIdentity(Sub(W("y"), Num(5))) >>,
              << AffVar(OuterX), AffVar(OuterY) >>, BlockRight)

(* caller: { 3, 7 } in ret { x, y }: the output does not match *)
BlockMismatch ==
    Secondary("block_mismatch", 4, BlockFresh, [lat |-> Ind(4, 2)], BlockIdentities,
              << AffConst(3), AffConst(7) >>, BlockRight)

(* first*ret = 0: the latch is known on row 0 only *)
LatchUnknown ==
    Secondary("latch_unknown", 4, BlockFresh, [first |-> Ind(4, 0)],
              << PolyIdentity(Mul(F("first"), W("ret"))) >>,
              << AffConst(3), AffVar(OuterY) >>, BlockRight)

(* ret = 0 on every row, and x + y - 1 = 0 stays open *)
LatchNever ==
    Secondary("latch_never", 4, BlockFresh, <<>>,
              << PolyIdentity(W("ret")), PolyIdentity(Sub(Add(W("x"), W("y")), One)) >>,
              << AffVar(OuterX), AffVar(OuterY) >>, BlockRight)

(* { sel * x } in { t } with sel on row 100 and t = 0, 1, 0, ...: the lookup is
   closed on every row but row 100, where it is open in x *)
LookupAtLoopStart ==
    Primary("lookup_at_loop_start", LongDegree, 0, [x |-> Unknown],
            [sel |-> Ind(LongDegree, LoopCheckInterval), t |-> Ind(LongDegree, 1)],
            << Plookup(Mul(F("sel"), W("x")), F("t")) >>)

(* caller: { 3, Y } in ret { x, y } with the latch on row 0: the outer query
   is processed before the input is set *)
BlockAtOnce ==
    Secondary("block_at_once", 4, BlockFresh, [lat |-> Ind(4, 0)], BlockIdentities,
              << AffConst(3), AffVar(OuterY) >>, BlockRight)

(* caller: { 3, Y } in ret { x, y }; ret = lat, (1 - reset) * (x' - x) = 0 with
   reset on row 1: the input x is carried from row 0 to row 1 and is open
   again on row 2 *)
InputReset ==
    Secondary("input_reset", 4, BlockFresh, [lat |-> Ind(4, 3), reset |-> Ind(4, 1)],
              << PolyIdentity(Sub(W("ret"), F("lat"))),
                 PolyIdentity(Mul(Sub(One, F("reset")), Sub(WN("x"), W("x")))) >>,
              << AffConst(3), AffVar(OuterY) >>, BlockRight)

(* sel' * a' = 0 with sel on row 100: a is zero on row 100 and open on every
   other row *)
KnownAtLoopStart ==
    Primary("known_at_loop_start", LongDegree, 0, [a |-> Unknown],
            [sel |-> Ind(LongDegree, LoopCheckInterval)],
            << PolyIdentity(Mul(FN("sel"), WN("a"))) >>)

Machines ==
    << Scenario1, Scenario2, Counter, TwoUnknowns, Contradiction,
       LateKnown, LateKnownOffset, OpenLookup, ClosedLookup, Queried, WrapMismatch,
       Stable, BrokenAtEnd, BrokenInside, Alternating, PeriodThree, PeriodFour,
       Block, BlockNoInput, BlockMismatch, LatchUnknown, LatchNever, KnownAtLoopStart,
       InputReset, BlockAtOnce, LookupAtLoopStart >>

(* a' - a = 0; first*a = 0, over a run with two finalizations *)
StableLong ==
    Primary("stable_long", VeryLongDegree, 0, [a |-> Unknown],
            [first |-> Ind(VeryLongDegree, 0)],
            << PolyIdentity(Sub(WN("a"), W("a"))),
               PolyIdentity(Mul(F("first"), W("a"))) >>)

(* a - pat = 0 with pat = 0, 1, 2, 3, 4, 0, ... on the rows of the first
   finalized range and 2, 0, 1, 2, 0, ... after it: the rows do not repeat
   with a period below MAX_PERIOD until the end of the first interval *)
LatePeriodThree ==
    Primary("late_period_three", FinalizeInterval + MAX_PERIOD, 0, [a |-> Unknown],
            [pat |-> [r \in 0..(FinalizeInterval + MAX_PERIOD - 1) |->
                        IF r < FinalizeInterval - MAX_PERIOD - 1 THEN r % 5 ELSE r % 3]],
            << PolyIdentity(Sub(W("a"), F("pat"))) >>)

(* caller: { 3, Y } in ret { x, y }; ret = 0, y = pat, (1 - reset)*(x' - x) = 0
   with reset on the last row before the second interval and pat leaving the
   loop on the row after it: the input x is assigned on row 0 and again on
   the first row of the second interval *)
InputAfterFinalize ==
    Secondary("input_after_finalize", FinalizeInterval + MAX_PERIOD, BlockFresh,
              [reset |-> Ind(FinalizeInterval + MAX_PERIOD, FinalizeInterval - 1),
               pat |-> [r \in 0..(FinalizeInterval + MAX_PERIOD - 1) |->
                          IF r < FinalizeInterval THEN 0 ELSE 1]],
              << PolyIdentity(W("ret")),
                 PolyIdentity(Sub(W("y"), F("pat"))),
                 PolyIdentity(Mul(Sub(One, F("reset")), Sub(WN("x"), W("x")))) >>,
              << AffConst(3), AffVar(OuterY) >>, BlockRight)

LongMachines == << StableLong, LatePeriodThree, InputAfterFinalize >>

(* The long runs up to the last rows of an interval: `period` is the period
   the run loops with from row 100 on (0: it does not loop), `row` the row of
   data at a row index, `psi` the inputs that were set on row 0, and
   `intervals` the number of the interval the run is followed in. *)
LongRuns ==
    << [period |-> 1, row |-> [r \in 0..VeryLongDegree |-> [a |-> Known(0)]],
        psi |-> <<>>, intervals |-> 2],
       [period |-> 0,
        row |-> [r \in 0..(FinalizeInterval + MAX_PERIOD) |->
                   [a |-> Known(LatePeriodThree.fixed.pat[r % LatePeriodThree.degree])]],
        psi |-> <<>>, intervals |-> 1],
       [period |-> 1,
        row |-> [r \in 0..(FinalizeInterval + MAX_PERIOD) |->
                   [ret |-> Known(0), x |-> Known(3), y |-> Known(0)]],
        psi |-> [c \in {"x"} |-> 0], intervals |-> 1] >>

(* the rows a long run is followed from *)
StartRows(l) ==
    (LongRuns[l].intervals * FinalizeInterval - RowsBeforeInterval)..
       (LongRuns[l].intervals * FinalizeInterval - 1)

AllMachines == Machines \o LongMachines

(***************************************************************************)
(* State of one call of VmProcessor::run.                                  *)
(***************************************************************************)
(* Part 2.  The analyzer (PILAnalyzer) and the Analyzed program.           *)
(*                                                                         *)
(* Option<X> is a sequence of at most one element.  A HashMap is a         *)
(* function.  An absolute name "T.a" is the pair <<"T", "a">>, a name      *)
(* without namespace ("%N") the tuple <<"%N">>.                            *)
(***************************************************************************)
None == <<>>
Some(x) == <<x>>
UnwrapOr(o, d) == IF o = None THEN d ELSE o[1]

EmptyMap == [k \in {} |-> None]
Insert(m, k, v) == [x \in (DOMAIN m) \cup {k} |-> IF x = k THEN v ELSE m[x]]
Restrict(m, keys) == [x \in keys |-> m[x]]

(* the names that start with '%' *)
PercentNames == {"%N", "%M"}

(* PolyID and From<&Symbol> for PolyID *)
PolyID(id, ptype) == [id |-> id, ptype |-> ptype]
PolyKind(ptype) == <<"Poly", ptype>>
ConstantKind == <<"Constant">>
IsPoly(symbol) == symbol.kind[1] = "Poly"
IsPolyOfType(symbol, ptype) == symbol.kind = PolyKind(ptype)
SymbolPolyID(symbol) == PolyID(symbol.id, symbol.kind[2])

Symbol(id, absolute_name, kind, degree, length) ==
    [id |-> id, absolute_name |-> absolute_name, kind |-> kind,
     degree |-> degree, length |-> length]

(***************************************************************************)
(* Expressions.  Parsed, generic and algebraic expressions are tuples:     *)
(*   <<"Number", n>>                                                       *)
(*   <<"Reference", r>>   r a record: parsed  [namespace, name, index, next] *)
(*                                    generic [name, poly_id (Option), index, next] *)
(*                                    algebraic [name, poly_id, index, next] *)
(*   <<"PublicReference", name>>                                           *)
(*   <<"BinaryOperation", l, op, r>>                                       *)
(***************************************************************************)
Number(n) == <<"Number", n>>
Reference(r) == <<"Reference", r>>
BinaryOperation(l, op, r) == <<"BinaryOperation", l, op, r>>
ParsedRef(namespace, name, index, next) ==
    Reference([namespace |-> namespace, name |-> name, index |-> index, next |-> next])
Col(name) == ParsedRef(None, name, None, FALSE)
ColNext(name) == ParsedRef(None, name, None, TRUE)
Elem(name, i) == ParsedRef(None, name, Some(i), FALSE)
Minus(l, r) == BinaryOperation(l, "-", r)
Times(l, r) == BinaryOperation(l, "*", r)

(* the references of an expression, in post-order *)
RECURSIVE References(_)
References(e) ==
    IF e[1] = "Reference" THEN << e[2] >>
    ELSE IF e[1] = "BinaryOperation" THEN References(e[2]) \o References(e[4])
    ELSE <<>>

(* Driver::resolve_decl *)
resolve_decl(an, name) ==
    IF name \in PercentNames THEN <<name>> ELSE <<an.namespace, name>>

(* Driver::resolve_ref and its assertion *)
IsUnqualified(an, name) ==
    name \in PercentNames \/ <<name>> \in DOMAIN an.definitions

(* variant: the current namespace is tried before Global *)
ResolveRefCurrentFirst(an, namespace, name) ==
    IF IsUnqualified(an, name) THEN <<name>>
    ELSE IF namespace = None /\ <<an.namespace, name>> \notin DOMAIN an.definitions
            /\ <<"Global", name>> \in DOMAIN an.definitions
    THEN <<"Global", name>>
    ELSE <<UnwrapOr(namespace, an.namespace), name>>

resolve_ref(an, namespace, name) ==
    IF IsUnqualified(an, name) THEN <<name>>
    ELSE IF namespace = None /\ <<"Global", name>> \in DOMAIN an.definitions
    THEN <<"Global", name>>
    ELSE <<UnwrapOr(namespace, an.namespace), name>>

ResolveRefPanics(an, namespace, name) ==
    IsUnqualified(an, name) /\ namespace # None

(* ExpressionProcessor::process_expression: names are resolved, the
   polynomial ID is left open *)
RECURSIVE ProcessExpression(_, _)
ProcessExpression(an, e) ==
    IF e[1] = "Reference"
    THEN Reference([name |-> resolve_ref(an, e[2].namespace, e[2].name),
                    poly_id |-> None, index |-> e[2].index, next |-> e[2].next])
    ELSE IF e[1] = "BinaryOperation"
    THEN BinaryOperation(ProcessExpression(an, e[2]), e[3], ProcessExpression(an, e[4]))
    ELSE e

ProcessExpressions(an, es) == [i \in 1..Len(es) |-> ProcessExpression(an, es[i])]

ProcessSelected(an, sel) ==
    [selector |-> ProcessExpressions(an, sel.selector),
     expressions |-> ProcessExpressions(an, sel.expressions)]

ExpressionPanics(an, e) ==
    \E i \in 1..Len(References(e)) :
        ResolveRefPanics(an, References(e)[i].namespace, References(e)[i].name)

(***************************************************************************)
(* Statements of a source file.                                            *)
(***************************************************************************)
Namespace(name, degree) == [stmt |-> "Namespace", name |-> name, degree |-> degree]
ConstantDefinition(name, value) ==
    [stmt |-> "ConstantDefinition", name |-> name, value |-> value]
PolynomialCommitDeclaration(name, array_size, value) ==
    [stmt |-> "PolynomialCommitDeclaration", name |-> name, array_size |-> array_size,
     value |-> value]
PolynomialConstantDefinition(name, value) ==
    [stmt |-> "PolynomialConstantDefinition", name |-> name, value |-> value]
PolynomialDefinition(name, value) ==
    [stmt |-> "PolynomialDefinition", name |-> name, value |-> value]
PolynomialIdentity(e) == [stmt |-> "PolynomialIdentity", expression |-> e]
PlookupIdentity(l, r) == [stmt |-> "PlookupIdentity", left |-> l, right |-> r]
PublicDeclarationStatement(name, poly, index) ==
    [stmt |-> "PublicDeclaration", name |-> name, polynomial |-> poly, index |-> index]
Selected(selector, expressions) == [selector |-> selector, expressions |-> expressions]

StatementExpressions(s) ==
    IF s.stmt = "PolynomialIdentity" THEN << s.expression >>
    ELSE IF s.stmt = "PlookupIdentity"
    THEN s.left.selector \o s.left.expressions \o s.right.selector \o s.right.expressions
    ELSE IF s.stmt = "PublicDeclaration" THEN << s.polynomial >>
    ELSE IF s.stmt \in {"PolynomialDefinition", "PolynomialConstantDefinition",
                        "PolynomialCommitDeclaration"}
    THEN s.value
    ELSE <<>>

StatementPanics(an, s) ==
    \E i \in 1..Len(StatementExpressions(s)) : ExpressionPanics(an, StatementExpressions(s)[i])

(***************************************************************************)
(* StatementProcessor::handle_statement: the PILItems of a statement.  IDs *)
(* come from one counter per kind; an array reserves length IDs.           *)
(***************************************************************************)
Counters0 ==
    [k \in {"Committed", "Constant", "Intermediate", "Other", "Public",
            "Polynomial", "Plookup"} |-> 0]

DefinitionItem(symbol, value) == [item |-> "Definition", symbol |-> symbol, value |-> value]

SymbolKindOf(s) ==
    IF s.stmt = "PolynomialCommitDeclaration" THEN PolyKind("Committed")
    ELSE IF s.stmt = "PolynomialConstantDefinition" THEN PolyKind("Constant")
    ELSE IF s.stmt = "PolynomialDefinition" THEN PolyKind("Intermediate")
    ELSE ConstantKind

CounterOf(s) == IF IsPoly([kind |-> SymbolKindOf(s)]) THEN SymbolKindOf(s)[2] ELSE "Other"

ArraySize(s) == IF s.stmt = "PolynomialCommitDeclaration" THEN s.array_size ELSE None

(* FunctionValueDefinition: kind and expressions; None when there is no value *)
ValueKind(s) ==
    IF s.stmt = "PolynomialCommitDeclaration" THEN "Query"
    ELSE IF s.stmt = "PolynomialConstantDefinition" THEN "Mapping"
    ELSE "Expression"

ValueOf(an, s) ==
    IF s.value = <<>> THEN None
    ELSE Some([kind |-> ValueKind(s), expressions |-> ProcessExpressions(an, s.value)])

IdentityOf(an, s, id) ==
    IF s.stmt = "PolynomialIdentity"
    THEN [id |-> id, kind |-> "Polynomial",
          left |-> Selected(Some(ProcessExpression(an, s.expression)), <<>>),
          right |-> Selected(None, <<>>)]
    ELSE [id |-> id, kind |-> "Plookup",
          left |-> ProcessSelected(an, s.left),
          right |-> ProcessSelected(an, s.right)]

IdentityCounterOf(s) == IF s.stmt = "PolynomialIdentity" THEN "Polynomial" ELSE "Plookup"

PublicDeclarationOf(an, s, id) ==
    [id |-> id, name |-> s.name,
     polynomial |-> ProcessExpression(an, s.polynomial)[2],
     index |-> s.index]

StatementItems(an, s, counters) ==
    IF s.stmt \in {"PolynomialIdentity", "PlookupIdentity"}
    THEN << [item |-> "Identity",
             identity |-> IdentityOf(an, s, counters[IdentityCounterOf(s)])] >>
    ELSE IF s.stmt = "PublicDeclaration"
    THEN << [item |-> "PublicDeclaration",
             decl |-> PublicDeclarationOf(an, s, counters["Public"])] >>
    ELSE << DefinitionItem(
               Symbol(counters[CounterOf(s)], resolve_decl(an, s.name), SymbolKindOf(s),
                      UnwrapOr(an.polynomial_degree, 0), ArraySize(s)),
               ValueOf(an, s)) >>

StatementCounter(s) ==
    IF s.stmt \in {"PolynomialIdentity", "PlookupIdentity"} THEN IdentityCounterOf(s)
    ELSE IF s.stmt = "PublicDeclaration" THEN "Public"
    ELSE CounterOf(s)

StatementCounters(s, counters) ==
    [counters EXCEPT ![StatementCounter(s)] = @ + UnwrapOr(ArraySize(s), 1)]

(***************************************************************************)
(* PILAnalyzer.  The analyzer an is a record: namespace, polynomial_degree *)
(* (Option), definitions, public_declarations, identities, source_order,   *)
(* symbol_counters, and error ("none" while analysis has not aborted).     *)
(***************************************************************************)
NewAnalyzer ==
    [namespace |-> "Global", polynomial_degree |-> None, definitions |-> EmptyMap,
     public_declarations |-> EmptyMap, identities |-> <<>>, source_order |-> <<>>,
     symbol_counters |-> Counters0, error |-> "none"]

Abort(an, why) == [an EXCEPT !.error = why]

(* variant: a definition replaces an earlier one of the same name *)
AddItemOverwrite(an, item) ==
    IF an.error # "none" THEN an
    ELSE IF item.item = "Definition"
    THEN [an EXCEPT
            !.definitions = Insert(@, item.symbol.absolute_name,
                                   [symbol |-> item.symbol, value |-> item.value]),
            !.source_order = Append(@, <<"Definition", item.symbol.absolute_name>>)]
    ELSE IF item.item = "PublicDeclaration"
    THEN [an EXCEPT
            !.public_declarations = Insert(@, item.decl.name, item.decl),
            !.source_order = Append(@, <<"PublicDeclaration", item.decl.name>>)]
    ELSE [an EXCEPT
            !.source_order = Append(@, <<"Identity", Len(an.identities)>>),
            !.identities = Append(@, item.identity)]

(* handle_statement, lines 121-143: one PILItem *)
AddItem(an, item) ==
    IF an.error # "none" THEN an
    ELSE IF item.item = "Definition"
    THEN (IF item.symbol.absolute_name \in DOMAIN an.definitions
          THEN Abort(an, "already defined")
          ELSE [an EXCEPT
                  !.definitions = Insert(@, item.symbol.absolute_name,
                                         [symbol |-> item.symbol, value |-> item.value]),
                  !.source_order = Append(@, <<"Definition", item.symbol.absolute_name>>)])
    ELSE IF item.item = "PublicDeclaration"
    THEN [an EXCEPT
            !.public_declarations = Insert(@, item.decl.name, item.decl),
            !.source_order = Append(@, <<"PublicDeclaration", item.decl.name>>)]
    ELSE [an EXCEPT
            !.source_order = Append(@, <<"Identity", Len(an.identities)>>),
            !.identities = Append(@, item.identity)]

RECURSIVE AddItems(_, _, _)
AddItems(an, items, i) ==
    IF i > Len(items) THEN an ELSE AddItems(AddItem(an, items[i]), items, i + 1)

NewestFirst(an, source_order) ==
    IF Len(an.source_order) > Len(source_order)
    THEN [an EXCEPT !.source_order = << @[Len(@)] >> \o source_order]
    ELSE an

(* variant: the entry of a new item is put in front of source_order *)
HandleOtherNewestFirst(an, s) ==
    IF StatementPanics(an, s) THEN Abort(an, "namespace on unqualified name")
    ELSE NewestFirst(AddItems([an EXCEPT !.symbol_counters = StatementCounters(s, @)],
                              StatementItems(an, s, an.symbol_counters), 1),
                     an.source_order)

(* handle_statement, lines 113-145: a statement that is neither an include
   nor a namespace *)
handle_other(an, s) ==
    IF StatementPanics(an, s) THEN Abort(an, "namespace on unqualified name")
    ELSE AddItems([an EXCEPT !.symbol_counters = StatementCounters(s, @)],
                  StatementItems(an, s, an.symbol_counters), 1)

(* evaluator::evaluate_expression on a degree expression: a number, or a
   reference to a constant *)
EvaluateDegree(an, e) ==
    IF e[1] = "Number" THEN Some(e[2])
    ELSE IF e[1] = "Reference" /\ resolve_ref(an, e[2].namespace, e[2].name) \in DOMAIN an.definitions
    THEN Some(an.definitions[resolve_ref(an, e[2].namespace, e[2].name)].value[1].expressions[1][2])
    ELSE None

(* variant: every namespace sets the degree *)
NamespaceDegreeLast(an, name, degree) ==
    IF degree = None THEN Abort(an, "degree not evaluated")
    ELSE [an EXCEPT !.polynomial_degree = degree, !.namespace = name]

NamespaceDegree(an, name, degree) ==
    IF degree = None THEN Abort(an, "degree not evaluated")
    ELSE IF an.polynomial_degree # None /\ an.polynomial_degree # degree
    THEN Abort(an, "all namespaces must have the same degree")
    ELSE [an EXCEPT !.polynomial_degree = degree, !.namespace = name]

(* handle_namespace *)
handle_namespace(an, name, degree) ==
    IF ExpressionPanics(an, degree) THEN Abort(an, "namespace on unqualified name")
    ELSE NamespaceDegree(an, name, EvaluateDegree(an, degree))

(* handle_statement *)
handle_statement(an, s) ==
    IF s.stmt = "Namespace" THEN handle_namespace(an, s.name, s.degree)
    ELSE handle_other(an, s)

(***************************************************************************)
(* condenser::condense: identities and intermediate columns are lowered to *)
(* algebraic expressions, polynomial IDs are filled in, the intermediate   *)
(* columns are moved from the definitions to intermediate_columns.         *)
(***************************************************************************)
Undefined(an, e) ==
    \E i \in 1..Len(References(e)) : References(e)[i].name \notin DOMAIN an.definitions

ScalarValue(an, name) == an.definitions[name].value[1].expressions[1]

AlgebraicReference(an, r) ==
    IF IsPoly(an.definitions[r.name].symbol)
    THEN Reference([name |-> r.name, poly_id |-> SymbolPolyID(an.definitions[r.name].symbol),
                    index |-> r.index, next |-> r.next])
    ELSE ScalarValue(an, r.name)

RECURSIVE condense_expression(_, _)
condense_expression(an, e) ==
    IF e[1] = "Reference" THEN AlgebraicReference(an, e[2])
    ELSE IF e[1] = "BinaryOperation"
    THEN BinaryOperation(condense_expression(an, e[2]), e[3], condense_expression(an, e[4]))
    ELSE e

CondenseExpressions(an, es) == [i \in 1..Len(es) |-> condense_expression(an, es[i])]

CondenseSelected(an, sel) ==
    [selector |-> CondenseExpressions(an, sel.selector),
     expressions |-> CondenseExpressions(an, sel.expressions)]

condense_identity(an, identity) ==
    [identity EXCEPT !.left = CondenseSelected(an, @), !.right = CondenseSelected(an, @)]

IdentityExpressions(identity) ==
    identity.left.selector \o identity.left.expressions
        \o identity.right.selector \o identity.right.expressions

(* a reference inside a definition: the ID of the polynomial it names *)
RECURSIVE FillPolyIDs(_, _)
FillPolyIDs(an, e) ==
    IF e[1] = "Reference"
    THEN (IF e[2].name \in DOMAIN an.definitions /\ IsPoly(an.definitions[e[2].name].symbol)
          THEN Reference([e[2] EXCEPT
                   !.poly_id = Some(SymbolPolyID(an.definitions[e[2].name].symbol))])
          ELSE e)
    ELSE IF e[1] = "BinaryOperation"
    THEN BinaryOperation(FillPolyIDs(an, e[2]), e[3], FillPolyIDs(an, e[4]))
    ELSE e

FillValue(an, value) ==
    IF value = None THEN None
    ELSE Some([value[1] EXCEPT
                 !.expressions = [i \in 1..Len(@) |-> FillPolyIDs(an, @[i])]])

IntermediateNames(an) ==
    {n \in DOMAIN an.definitions : IsPolyOfType(an.definitions[n].symbol, "Intermediate")}

CondensePanics(an) ==
    \/ \E i \in 1..Len(an.identities) :
          \E j \in 1..Len(IdentityExpressions(an.identities[i])) :
              Undefined(an, IdentityExpressions(an.identities[i])[j])
    \/ \E n \in IntermediateNames(an) :
          an.definitions[n].value = None
              \/ Undefined(an, an.definitions[n].value[1].expressions[1])
    \/ \E n \in DOMAIN an.public_declarations :
          \/ an.public_declarations[n].polynomial.name \notin DOMAIN an.definitions
          \/ ~IsPoly(an.definitions[an.public_declarations[n].polynomial.name].symbol)

condense(an) ==
    [definitions |->
        [n \in (DOMAIN an.definitions) \ IntermediateNames(an) |->
            [symbol |-> an.definitions[n].symbol,
             value |-> FillValue(an, an.definitions[n].value)]],
     public_declarations |->
        [n \in DOMAIN an.public_declarations |->
            [an.public_declarations[n] EXCEPT
                !.polynomial.poly_id =
                    Some(SymbolPolyID(an.definitions[an.public_declarations[n].polynomial.name].symbol))]],
     intermediate_columns |->
        [n \in IntermediateNames(an) |->
            [symbol |-> an.definitions[n].symbol,
             value |-> condense_expression(an, an.definitions[n].value[1].expressions[1])]],
     identities |-> [i \in 1..Len(an.identities) |-> condense_identity(an, an.identities[i])],
     source_order |-> an.source_order]

EmptyAnalyzed ==
    [definitions |-> EmptyMap, public_declarations |-> EmptyMap,
     intermediate_columns |-> EmptyMap, identities |-> <<>>, source_order |-> <<>>]

(***************************************************************************)
(* Analyzed (ast/src/analyzed/mod.rs).                                     *)
(***************************************************************************)
(* definitions_in_source_order: the symbols of one polynomial type *)
RECURSIVE SymbolsInSourceOrder(_, _, _)
SymbolsInSourceOrder(a, ptype, i) ==
    IF i > Len(a.source_order) THEN <<>>
    ELSE (IF /\ a.source_order[i][1] = "Definition"
             /\ a.source_order[i][2] \in DOMAIN a.definitions
             /\ IsPolyOfType(a.definitions[a.source_order[i][2]].symbol, ptype)
          THEN << a.definitions[a.source_order[i][2]].symbol >>
          ELSE <<>>) \o SymbolsInSourceOrder(a, ptype, i + 1)

committed_polys_in_source_order(a) == SymbolsInSourceOrder(a, "Committed", 1)
constant_polys_in_source_order(a) == SymbolsInSourceOrder(a, "Constant", 1)

(* declaration_type_count *)
RECURSIVE SumLengths(_, _)
SumLengths(a, names) ==
    IF names = {} THEN 0
    ELSE UnwrapOr(a.definitions[CHOOSE n \in names : TRUE].symbol.length, 1)
         + SumLengths(a, names \ {CHOOSE n \in names : TRUE})

declaration_type_count(a, ptype) ==
    SumLengths(a, {n \in DOMAIN a.definitions : IsPolyOfType(a.definitions[n].symbol, ptype)})

(* variant: a removed polynomial shifts the IDs by one, whatever its length *)
RECURSIVE FoldReplacementsUnitShift(_, _, _, _, _)
FoldReplacementsUnitShift(polys, to_remove, i, shift, replacements) ==
    IF i > Len(polys) THEN replacements
    ELSE IF SymbolPolyID(polys[i]) \in to_remove
    THEN FoldReplacementsUnitShift(polys, to_remove, i + 1, shift + 1, replacements)
    ELSE FoldReplacementsUnitShift(polys, to_remove, i + 1, shift,
                          Insert(replacements, SymbolPolyID(polys[i]),
                                 PolyID(polys[i].id - shift, polys[i].kind[2])))

(* remove_polynomials, lines 128-146: the fold over the polynomials of one kind *)
RECURSIVE FoldReplacements(_, _, _, _, _)
FoldReplacements(polys, to_remove, i, shift, replacements) ==
    IF i > Len(polys) THEN replacements
    ELSE IF SymbolPolyID(polys[i]) \in to_remove
    THEN FoldReplacements(polys, to_remove, i + 1,
                          shift + UnwrapOr(polys[i].length, 1), replacements)
    ELSE FoldReplacements(polys, to_remove, i + 1, shift,
                          Insert(replacements, SymbolPolyID(polys[i]),
                                 PolyID(polys[i].id - shift, polys[i].kind[2])))

IntermediateIDs(a) ==
    {SymbolPolyID(a.intermediate_columns[n].symbol) : n \in DOMAIN a.intermediate_columns}

(* remove_polynomials, lines 153-158 *)
WithIntermediates(a, replacements) ==
    [x \in (DOMAIN replacements) \cup IntermediateIDs(a) |->
        IF x \in IntermediateIDs(a) THEN x ELSE replacements[x]]

(* variant: the shift grows with every polynomial, removed or not *)
ReplacementsShiftAll(a, to_remove) ==
    WithIntermediates(a,
        [x \in {SymbolPolyID(a.definitions[n].symbol) :
                   n \in {m \in DOMAIN a.definitions : IsPoly(a.definitions[m].symbol)}} |->
            PolyID(x.id + 1, x.ptype)])

(* remove_polynomials, lines 122-158 *)
Replacements(a, to_remove) ==
    WithIntermediates(a,
        FoldReplacements(constant_polys_in_source_order(a), to_remove, 1, 0,
            FoldReplacements(committed_polys_in_source_order(a), to_remove, 1, 0, EmptyMap)))

(* the polynomial IDs referenced by an algebraic expression *)
AlgebraicPolyIDs(e) == {References(e)[i].poly_id : i \in 1..Len(References(e))}

(* the polynomial IDs referenced by a generic expression *)
ExpressionPolyIDs(e) ==
    {References(e)[i].poly_id[1] :
        i \in {j \in 1..Len(References(e)) : References(e)[j].poly_id # None}}

ValueExpressions(value) == IF value = None THEN <<>> ELSE value[1].expressions

SeqPolyIDs(es) == UNION {ExpressionPolyIDs(es[i]) : i \in 1..Len(es)}
AlgebraicSeqPolyIDs(es) == UNION {AlgebraicPolyIDs(es[i]) : i \in 1..Len(es)}

(* post_visit_expressions_in_definitions_mut: the IDs the visitor meets *)
DefinitionPolyIDs(a) ==
    UNION {SeqPolyIDs(ValueExpressions(a.definitions[n].value)) : n \in DOMAIN a.definitions}

(* post_visit_expressions_in_identities_mut: the IDs the visitor meets *)
IdentityPolyIDs(a) ==
    UNION {AlgebraicSeqPolyIDs(IdentityExpressions(a.identities[i])) :
              i \in 1..Len(a.identities)}
      \cup UNION {AlgebraicPolyIDs(a.intermediate_columns[n].value) :
                     n \in DOMAIN a.intermediate_columns}

(* the visitors of remove_polynomials, lines 183-198 *)
RECURSIVE RewriteExpression(_, _)
RewriteExpression(e, replacements) ==
    IF e[1] = "Reference"
    THEN (IF e[2].poly_id = None THEN e
          ELSE Reference([e[2] EXCEPT !.poly_id = Some(replacements[@[1]])]))
    ELSE IF e[1] = "BinaryOperation"
    THEN BinaryOperation(RewriteExpression(e[2], replacements), e[3],
                         RewriteExpression(e[4], replacements))
    ELSE e

(* variant: the references of identities and intermediate columns keep their IDs *)
RewriteAlgebraicKeep(e, replacements) == e

RECURSIVE RewriteAlgebraic(_, _)
RewriteAlgebraic(e, replacements) ==
    IF e[1] = "Reference"
    THEN Reference([e[2] EXCEPT !.poly_id = replacements[@]])
    ELSE IF e[1] = "BinaryOperation"
    THEN BinaryOperation(RewriteAlgebraic(e[2], replacements), e[3],
                         RewriteAlgebraic(e[4], replacements))
    ELSE e

RewriteValue(value, replacements) ==
    IF value = None THEN None
    ELSE Some([value[1] EXCEPT
                 !.expressions = [i \in 1..Len(@) |-> RewriteExpression(@[i], replacements)]])

RewriteSelected(sel, replacements) ==
    [selector |-> [i \in 1..Len(sel.selector) |-> RewriteAlgebraic(sel.selector[i], replacements)],
     expressions |-> [i \in 1..Len(sel.expressions) |->
                         RewriteAlgebraic(sel.expressions[i], replacements)]]

RewriteIdentity(identity, replacements) ==
    [identity EXCEPT !.left = RewriteSelected(@, replacements),
                     !.right = RewriteSelected(@, replacements)]

(* remove_polynomials, lines 160-170: the definitions that are removed *)
NamesToRemove(a, to_remove) ==
    {n \in DOMAIN a.definitions :
        IsPoly(a.definitions[n].symbol) /\ SymbolPolyID(a.definitions[n].symbol) \in to_remove}

(* remove_polynomials, lines 171-178 *)
RECURSIVE RetainSourceOrder(_, _, _)
RetainSourceOrder(source_order, names_to_remove, i) ==
    IF i > Len(source_order) THEN <<>>
    ELSE (IF source_order[i][1] = "Definition" /\ source_order[i][2] \in names_to_remove
          THEN <<>> ELSE << source_order[i] >>)
         \o RetainSourceOrder(source_order, names_to_remove, i + 1)

RenumberSymbol(symbol, replacements) ==
    IF IsPoly(symbol) THEN [symbol EXCEPT !.id = replacements[SymbolPolyID(symbol)].id]
    ELSE symbol

(* variant: no assertion on the intermediate columns *)
RemovePolynomialsPanicsNoIntermediate(a, to_remove, replacements) ==
    \/ \E x \in DOMAIN replacements : replacements[x].id < 0
    \/ \E n \in (DOMAIN a.definitions) \ NamesToRemove(a, to_remove) :
          /\ IsPoly(a.definitions[n].symbol)
          /\ SymbolPolyID(a.definitions[n].symbol) \notin DOMAIN replacements
    \/ \E x \in UNION {SeqPolyIDs(ValueExpressions(a.definitions[n].value)) :
                          n \in (DOMAIN a.definitions) \ NamesToRemove(a, to_remove)} :
          x \in to_remove \/ x \notin DOMAIN replacements
    \/ \E x \in IdentityPolyIDs(a) : x \in to_remove \/ x \notin DOMAIN replacements

(* the assertions and map lookups of remove_polynomials that abort the call *)
RemovePolynomialsPanics(a, to_remove, replacements) ==
    \/ IntermediateIDs(a) \cap to_remove # {}
    \/ \E x \in DOMAIN replacements : replacements[x].id < 0
    \/ \E n \in (DOMAIN a.definitions) \ NamesToRemove(a, to_remove) :
          /\ IsPoly(a.definitions[n].symbol)
          /\ SymbolPolyID(a.definitions[n].symbol) \notin DOMAIN replacements
    \/ \E x \in UNION {SeqPolyIDs(ValueExpressions(a.definitions[n].value)) :
                          n \in (DOMAIN a.definitions) \ NamesToRemove(a, to_remove)} :
          x \in to_remove \/ x \notin DOMAIN replacements
    \/ \E x \in IdentityPolyIDs(a) : x \in to_remove \/ x \notin DOMAIN replacements

RemovePolynomialsResult(a, to_remove, replacements) ==
    [definitions |->
        [n \in (DOMAIN a.definitions) \ NamesToRemove(a, to_remove) |->
            [symbol |-> RenumberSymbol(a.definitions[n].symbol, replacements),
             value |-> RewriteValue(a.definitions[n].value, replacements)]],
     public_declarations |-> a.public_declarations,
     intermediate_columns |->
        [n \in DOMAIN a.intermediate_columns |->
            [a.intermediate_columns[n] EXCEPT !.value = RewriteAlgebraic(@, replacements)]],
     identities |-> [i \in 1..Len(a.identities) |->
                        RewriteIdentity(a.identities[i], replacements)],
     source_order |-> RetainSourceOrder(a.source_order, NamesToRemove(a, to_remove), 1)]

(* variant: a failing assertion leaves the call to complete *)
RemoveWithNoAbort(a, to_remove, replacements) ==
    IF RemovePolynomialsPanics(a, to_remove, replacements)
    THEN [analyzed |-> a, panic |-> FALSE]
    ELSE [analyzed |-> RemovePolynomialsResult(a, to_remove, replacements), panic |-> FALSE]

RemoveWith(a, to_remove, replacements) ==
    IF RemovePolynomialsPanics(a, to_remove, replacements)
    THEN [analyzed |-> a, panic |-> TRUE]
    ELSE [analyzed |-> RemovePolynomialsResult(a, to_remove, replacements), panic |-> FALSE]

(* Analyzed::remove_polynomials *)
remove_polynomials(a, to_remove) == RemoveWith(a, to_remove, Replacements(a, to_remove))

(* variant: the ID of the first identity instead of the largest one *)
MaxIdOfFirst(identities, i) == IF identities = <<>> THEN 0 ELSE identities[1].id

(* append_polynomial_identity, lines 210-216: the new ID *)
RECURSIVE MaxId(_, _)
MaxId(identities, i) ==
    IF i > Len(identities) THEN 0
    ELSE IF identities[i].id > MaxId(identities, i + 1) THEN identities[i].id
    ELSE MaxId(identities, i + 1)

AppendWithId(a, identity, id) ==
    [analyzed |->
        [a EXCEPT
           !.identities = Append(@, [id |-> id, kind |-> "Polynomial",
                                     left |-> Selected(Some(identity), <<>>),
                                     right |-> Selected(None, <<>>)]),
           !.source_order = Append(@, <<"Identity", id>>)],
     id |-> id]

(* Analyzed::append_polynomial_identity *)
append_polynomial_identity(a, identity) == AppendWithId(a, identity, MaxId(a.identities, 1) + 1)

(* remove_identities, lines 238-248: source_order *)
RECURSIVE ShiftSourceOrder(_, _, _, _)
ShiftSourceOrder(source_order, to_remove, i, shift) ==
    IF i > Len(source_order) THEN <<>>
    ELSE IF source_order[i][1] # "Identity"
    THEN << source_order[i] >> \o ShiftSourceOrder(source_order, to_remove, i + 1, shift)
    ELSE IF source_order[i][2] \in to_remove
    THEN ShiftSourceOrder(source_order, to_remove, i + 1, shift + 1)
    ELSE << <<"Identity", source_order[i][2] - shift>> >>
         \o ShiftSourceOrder(source_order, to_remove, i + 1, shift)

(* remove_identities, lines 249-254: the identities, by index *)
RECURSIVE RetainIdentities(_, _, _)
RetainIdentities(identities, to_remove, index) ==
    IF index >= Len(identities) THEN <<>>
    ELSE (IF index \in to_remove THEN <<>> ELSE << identities[index + 1] >>)
         \o RetainIdentities(identities, to_remove, index + 1)

(* the subtraction *index -= shift of remove_identities below zero *)
RemoveIdentitiesPanics(a, to_remove) ==
    \E i \in 1..Len(ShiftSourceOrder(a.source_order, to_remove, 1, 0)) :
        ShiftSourceOrder(a.source_order, to_remove, 1, 0)[i][1] = "Identity"
            /\ ShiftSourceOrder(a.source_order, to_remove, 1, 0)[i][2] < 0

(* Analyzed::remove_identities *)
remove_identities(a, to_remove) ==
    [a EXCEPT !.source_order = ShiftSourceOrder(@, to_remove, 1, 0),
              !.identities = RetainIdentities(@, to_remove, 0)]

(***************************************************************************)
(* Source programs.                                                        *)
(***************************************************************************)
Witness(name) == PolynomialCommitDeclaration(name, None, <<>>)
Fixed(name) == PolynomialConstantDefinition(name, << Number(1) >>)

(* namespace T(4); col witness a; col witness b; col witness c; col witness d;
   a' - c = 0; d * a = 0; *)
FourColumns ==
    << Namespace("T", Number(4)), Witness("a"), Witness("b"), Witness("c"), Witness("d"),
       PolynomialIdentity(Minus(ColNext("a"), Col("c"))),
       PolynomialIdentity(Times(Col("d"), Col("a"))) >>

(* namespace T(4); col fixed first = ...; col witness x[2]; col witness y;
   x[1] - y = 0; { y } in { first }; public out = y(3); *)
ArraysAndPublic ==
    << Namespace("T", Number(4)), Fixed("first"),
       PolynomialCommitDeclaration("x", Some(2), <<>>), Witness("y"),
       PolynomialIdentity(Minus(Elem("x", 1), Col("y"))),
       PlookupIdentity(Selected(None, << Col("y") >>), Selected(None, << Col("first") >>)),
       PublicDeclarationStatement("out", Col("y"), 3) >>

(* constant %N = 4; namespace T(%N); col fixed f = ...; col witness a;
   col inter = a * f; col witness b(i) query f; inter - b' = 0; *)
IntermediateAndQuery ==
    << ConstantDefinition("%N", << Number(4) >>), Namespace("T", Col("%N")), Fixed("f"),
       Witness("a"), PolynomialDefinition("inter", << Times(Col("a"), Col("f")) >>),
       PolynomialCommitDeclaration("b", None, << Col("f") >>),
       PolynomialIdentity(Minus(Col("inter"), ColNext("b"))) >>

(* namespace Global(8); col fixed L1 = ...; namespace T(8); col witness w;
   w * L1 = 0; T.w' = 0; *)
GlobalColumn ==
    << Namespace("Global", Number(8)), Fixed("L1"), Namespace("T", Number(8)), Witness("w"),
       PolynomialIdentity(Times(Col("w"), Col("L1"))),
       PolynomialIdentity(ParsedRef(Some("T"), "w", None, TRUE)) >>

(* namespace Global(8); col fixed L1 = ...; namespace T(8); col witness L1;
   col witness a; a * L1 = 0; *)
Shadowed ==
    << Namespace("Global", Number(8)), Fixed("L1"), Namespace("T", Number(8)), Witness("L1"),
       Witness("a"), PolynomialIdentity(Times(Col("a"), Col("L1"))) >>

(* namespace T(4); col witness a; col witness a; *)
DefinedTwice == << Namespace("T", Number(4)), Witness("a"), Witness("a") >>

(* namespace T(4); col witness a; namespace U(8); col witness b; *)
TwoDegrees ==
    << Namespace("T", Number(4)), Witness("a"), Namespace("U", Number(8)), Witness("b") >>

(* namespace T(4); col witness a; a - z = 0; *)
UndefinedColumn ==
    << Namespace("T", Number(4)), Witness("a"), PolynomialIdentity(Minus(Col("a"), Col("z"))) >>

(* constant %N = 4; namespace T(4); col witness a; a - T.%N = 0; *)
QualifiedConstant ==
    << ConstantDefinition("%N", << Number(4) >>), Namespace("T", Number(4)), Witness("a"),
       PolynomialIdentity(Minus(Col("a"), ParsedRef(Some("T"), "%N", None, FALSE))) >>

(* namespace T(4); col witness u[3]; col fixed g = ...; col witness v;
   col fixed h = ...; col witness w(i) query h; v - w * h = 0; *)
UnusedArray ==
    << Namespace("T", Number(4)), PolynomialCommitDeclaration("u", Some(3), <<>>),
       Fixed("g"), Witness("v"), Fixed("h"),
       PolynomialCommitDeclaration("w", None, << Col("h") >>),
       PolynomialIdentity(Minus(Col("v"), Times(Col("w"), Col("h")))) >>

(* namespace T(4); col witness z; col witness a; col witness b; col ab = a * b; *)
NoIdentities ==
    << Namespace("T", Number(4)), Witness("z"), Witness("a"), Witness("b"),
       PolynomialDefinition("ab", << Times(Col("a"), Col("b")) >>) >>

Programs ==
    << FourColumns, ArraysAndPublic, IntermediateAndQuery, GlobalColumn, DefinedTwice,
       TwoDegrees, UndefinedColumn, QualifiedConstant, <<>>, UnusedArray, NoIdentities,
       Shadowed >>

(***************************************************************************)
(* Files and includes.  A path is a sequence of components; a file system  *)
(* has files (canonical path -> statements) and links (path of a symbolic  *)
(* link -> canonical path of its target).                                  *)
(***************************************************************************)
Include(path) == [stmt |-> "Include", path |-> path]

NotFound == << "?" >>

(* Path::parent *)
Parent(path) == IF path = <<>> THEN <<>> ELSE SubSeq(path, 1, Len(path) - 1)

(* PathBuf::push: an absolute path replaces the directory *)
Push(dir, path) == IF path[1] = "/" THEN Tail(path) ELSE dir \o path

(* the directories of a file system *)
Directories(fsys) ==
    UNION {{SubSeq(f, 1, n) : n \in 0..(Len(f) - 1)} : f \in DOMAIN fsys.files}

(* Path::canonicalize: "." and ".." are resolved from left to right, every
   directory on the way has to exist, a link is replaced by its target and
   the file has to exist *)
RECURSIVE Walk(_, _, _, _)
Walk(fsys, path, i, dir) ==
    IF i > Len(path) THEN NotFound
    ELSE IF path[i] = "." THEN Walk(fsys, path, i + 1, dir)
    ELSE IF path[i] = ".." THEN Walk(fsys, path, i + 1, Parent(dir))
    ELSE IF i < Len(path)
    THEN (IF Append(dir, path[i]) \in Directories(fsys)
          THEN Walk(fsys, path, i + 1, Append(dir, path[i]))
          ELSE NotFound)
    ELSE IF Append(dir, path[i]) \in DOMAIN fsys.links
    THEN fsys.links[Append(dir, path[i])]
    ELSE IF Append(dir, path[i]) \in DOMAIN fsys.files THEN Append(dir, path[i])
    ELSE NotFound

Canonicalize(fsys, path) == Walk(fsys, path, 1, <<>>)

(* handle_include: the path handed to process_file *)
IncludePath(current, path) == Push(Parent(current), path)

(* variant: current_file is not restored at the end of a file *)
AfterFileContentsKeep(frame, current) == current

(* process_file_contents, lines 95-96: current_file after the file *)
AfterFileContents(frame, current) == frame.old_current_file

(* main.pil includes lib/a.pil, c.pil and lib/b.pil; lib/a.pil and lib/b.pil
   both include lib/c.pil, lib/a.pil includes main.pil back, lib/sub/d.pil
   includes from two directories *)
Tree ==
    [files |->
        << "main.pil" >> :> << Namespace("T", Number(4)), Include(<< "lib", "a.pil" >>),
                               Witness("m"), Include(<< "c.pil" >>),
                               Include(<< "lib", "b.pil" >>) >>
        @@ << "c.pil" >> :> << Witness("c0") >>
        @@ << "lib", "a.pil" >> :> << Include(<< "c.pil" >>), Witness("a"),
                                      Include(<< "..", "main.pil" >>),
                                      Include(<< "sub", "d.pil" >>), Witness("a2") >>
        @@ << "lib", "b.pil" >> :> << Include(<< "c.pil" >>),
                                      Include(<< ".", "..", "lib", "a.pil" >>), Witness("b") >>
        @@ << "lib", "c.pil" >> :> << Witness("c1") >>
        @@ << "lib", "e.pil" >> :> << Witness("e1") >>
        @@ << "lib", "sub", "d.pil" >> :> << Include(<< "..", "c.pil" >>), Witness("d"),
                                             Include(<< "e.pil" >>) >>
        @@ << "lib", "sub", "e.pil" >> :> << Witness("e2"), Include(<< "/", "c.pil" >>) >>,
     links |-> << >>]

(* top.pil includes real/r.pil through the link alias.pil and by its path,
   then a file that does not exist *)
Linked ==
    [files |->
        << "top.pil" >> :> << Include(<< "alias.pil" >>), Include(<< "real", "r.pil" >>),
                              Witness("t"), Include(<< "gone.pil" >>) >>
        @@ << "s.pil" >> :> << Witness("s0") >>
        @@ << "real", "r.pil" >> :> << Witness("r"), Include(<< "s.pil" >>), Witness("r2") >>
        @@ << "real", "s.pil" >> :> << Witness("s1") >>,
     links |-> << "alias.pil" >> :> << "real", "r.pil" >>]

FileSystems == << Tree, Linked >>

(* the paths process_file is called with *)
RootPaths(fsys) == (DOMAIN fsys.files) \cup (DOMAIN fsys.links)

(* Number of operations applied to an Analyzed. *)
MaxOps == 3

(***************************************************************************)
VARIABLES
    program,            \* index into Programs
    statement,          \* index of the next statement of the program
    analyzer,           \* the PILAnalyzer
    analyzed,           \* the Analyzed
    phase,              \* "analyze", "analyzed" or "panic"
    ops,                \* number of operations applied to analyzed
    op,                 \* the last operation and its argument
    before,             \* analyzed before the last operation
    resolution          \* the reference resolved last in the current analyzer state

VARIABLES
    fs,                 \* index into FileSystems
    root,               \* canonical path of the file process_file was called with
    stack,              \* the calls of process_file_contents in progress
    included_files,     \* PILAnalyzer::included_files
    current_file,       \* PILAnalyzer::current_file
    folded,             \* the statements handed to the statement processor
    ipc                 \* "idle", "start", "running", "done" or "panic"

ivars == <<fs, root, stack, included_files, current_file, folded, ipc>>

VARIABLES
    call,               \* the function called last and its arguments
    ret                 \* what the call returned

VARIABLES
    cr,                 \* the call of compute_row in progress
    crlog,              \* what that call has done so far
    steps               \* the number of steps the processor has taken

rvars == <<cr, crlog, steps>>

fvars == <<call, ret, rvars>>

avars == <<program, statement, analyzer, analyzed, phase, ops, op, before, resolution, ivars,
           fvars>>

VARIABLES
    machine,            \* index into Machines
    data,               \* VmProcessor::data
    left,               \* outer_query.left
    psi,                \* previously_set_inputs
    outer_assignments,  \* run's local outer_assignments
    row_index,          \* the loop variable of run
    looping_period,     \* 0 for None
    log_level,          \* loop_detection_log_level
    pc,                 \* position in run
    result,             \* how run ended
    last,               \* the last step taken and its row
    seen,               \* the kinds of steps taken so far
    committed,          \* rows committed by try_proposed_row since looping started
    wrap_mismatch,      \* columns reported by generate's wrap-around comparison
    finalize_start,     \* run's local finalize_start
    finalized,          \* the ranges of data that are finalized
    accessed            \* the rows of data the last step read or wrote

vmvars == <<machine, data, left, psi, outer_assignments, row_index, looping_period,
            log_level, pc, result, last, seen, committed, wrap_mismatch,
            finalize_start, finalized, accessed>>

M == AllMachines[machine]
St == [data |-> data, left |-> left, psi |-> psi]
RowsLeft == M.degree - M.row_offset + 1

VmInit ==
    /\ machine \in 1..Len(Machines)
    /\ data = << FreshRow(Machines[machine]) >>
    /\ left = Machines[machine].outer_left
    /\ psi = <<>>
    /\ outer_assignments = <<>>
    /\ row_index = 0
    /\ looping_period = 0
    /\ log_level = "Info"
    /\ pc = "top"
    /\ result = "none"
    /\ last = [ev |-> "init", row |-> 0]
    /\ seen = {}
    /\ committed = {}
    /\ wrap_mismatch = {}
    /\ finalize_start = 1
    /\ finalized = <<>>
    /\ accessed = {}

(* run on one of the long machines, from row 0 *)
VmInitFullRun ==
    /\ machine \in (Len(Machines) + 1)..Len(AllMachines)
    /\ data = << FreshRow(AllMachines[machine]) >>
    /\ left = AllMachines[machine].outer_left
    /\ psi = <<>>
    /\ outer_assignments = <<>>
    /\ row_index = 0
    /\ looping_period = 0
    /\ log_level = "Info"
    /\ pc = "top"
    /\ result = "none"
    /\ last = [ev |-> "init", row |-> 0]
    /\ seen = {}
    /\ committed = {}
    /\ wrap_mismatch = {}
    /\ finalize_start = 1
    /\ finalized = <<>>
    /\ accessed = {}

(* run, lines 150-156: the ranges finalized in the first k intervals *)
FinalizedIn(k) ==
    [j \in 1..k |-> [from |-> IF j = 1 THEN 1 ELSE (j - 1) * FinalizeInterval - 1 - MAX_PERIOD,
                     to |-> j * FinalizeInterval - 1 - MAX_PERIOD]]

(* run on the long machine l, at the top of the iteration of row r: in
   looping mode the rows before r are there, in normal mode row r as well *)
LongRunAt(l, r) ==
    /\ machine = Len(Machines) + l
    /\ data = IF LongRuns[l].period # 0
              THEN [i \in 1..r |-> LongRuns[l].row[i - 1]]
              ELSE [i \in 1..(r + 1) |->
                      IF i = r + 1 THEN FreshRow(LongMachines[l]) ELSE LongRuns[l].row[i - 1]]
    /\ left = LongMachines[l].outer_left
    /\ psi = LongRuns[l].psi
    /\ outer_assignments = <<>>
    /\ row_index = r
    /\ looping_period = LongRuns[l].period
    /\ log_level = "Info"
    /\ pc = "top"
    /\ result = "none"
    /\ last = [ev |-> IF LongRuns[l].period # 0 THEN "accept" ELSE "compute", row |-> r - 1]
    /\ seen = IF LongRuns[l].period # 0 THEN {"compute", "detect", "accept"} ELSE {"compute"}
    /\ committed = IF LongRuns[l].period # 0 THEN LoopCheckInterval..(r - 1) ELSE {}
    /\ wrap_mismatch = {}
    /\ finalize_start = IF r < FinalizeInterval THEN 1
                        ELSE FinalizedIn(r \div FinalizeInterval)[r \div FinalizeInterval].to
    /\ finalized = FinalizedIn(r \div FinalizeInterval)
    /\ accessed = IF LongRuns[l].period # 0 THEN {} ELSE {r - 1, r}

VmInitLong == \E l \in 1..Len(LongRuns) : \E r \in StartRows(l) : LongRunAt(l, r)

SetSt(st) ==
    /\ data' = st.data
    /\ left' = st.left
    /\ psi' = st.psi

Step(ev) ==
    /\ last' = [ev |-> ev, row |-> row_index]
    /\ seen' = seen \cup {ev}

Panic(status) ==
    /\ pc' = "panic"
    /\ result' = status

(* run, lines 158-167: loop detection at the top of an iteration *)
LoopDetectionDue ==
    looping_period = 0 /\ row_index % LoopCheckInterval = 0 /\ row_index > 0

(* run, lines 150-156: periodic finalization at the top of an iteration *)
FinalizeDue == (row_index + 1) % FinalizeInterval = 0

(* variant: the rows up to the current row are finalized *)
FinalizeEndAtRow(r) == r

FinalizeEnd(r) == r - MAX_PERIOD

CheckLoop ==
    /\ UNCHANGED avars
    /\ pc = "top" /\ row_index < RowsLeft
    /\ finalize_start' = IF FinalizeDue THEN FinalizeEnd(row_index) ELSE finalize_start
    /\ finalized' = IF FinalizeDue
                    THEN FinalizeRange(finalized, finalize_start, FinalizeEnd(row_index))
                    ELSE finalized
    /\ accessed' = IF LoopDetectionDue THEN RowsReadByLoopDetection(St, row_index) ELSE {}
    /\ IF TouchesFinalized(finalized', accessed')
       THEN Panic("row_finalized") /\ UNCHANGED <<looping_period, last, seen, committed>>
       ELSE /\ looping_period' = IF LoopDetectionDue THEN RowsAreRepeating(St, row_index)
                                 ELSE looping_period
            /\ pc' = "propose"
            /\ UNCHANGED result
            /\ (IF LoopDetectionDue /\ looping_period' # 0
                THEN Step("detect") /\ committed' = {}
                ELSE UNCHANGED <<last, seen, committed>>)
    /\ UNCHANGED <<machine, data, left, psi, outer_assignments, row_index, log_level,
                   wrap_mismatch>>

(* run, lines 168-180: looping mode.  t is the outcome of try_proposed_row. *)
ProposedRow == data[row_index - looping_period + 1]

(* variant: a rejected proposal does not end looping mode *)
ProposalOutcomeKeepLooping(t) ==
    /\ SetSt(t.st)
    /\ IF t.status = "ok"
       THEN pc' = "normal" /\ UNCHANGED result
       ELSE Panic(t.status)
    /\ Step(IF t.valid THEN "accept" ELSE "reject")
    /\ UNCHANGED looping_period
    /\ log_level' = IF t.valid THEN log_level ELSE "Debug"
    /\ committed' = IF t.valid THEN committed \cup {row_index} ELSE {}

ProposalOutcome(t) ==
    /\ SetSt(t.st)
    /\ IF t.status = "ok"
       THEN pc' = "normal" /\ UNCHANGED result
       ELSE Panic(t.status)
    /\ Step(IF t.valid THEN "accept" ELSE "reject")
    /\ looping_period' = IF t.valid THEN looping_period ELSE 0
    /\ log_level' = IF t.valid THEN log_level ELSE "Debug"
    /\ committed' = IF t.valid THEN committed \cup {row_index} ELSE {}

(* try_proposed_row reads the proposed row and the row before row_index; it
   writes row_index, or computes the row before it again *)
RowsOfProposal(t) ==
    {row_index - looping_period, row_index - 1} \cup
    (IF t.valid THEN {row_index}
     ELSE {row_index} \cup RolledBackRows(psi, t.st.psi, row_index - 1))

IndexedProposal(t) ==
    /\ accessed' = RowsOfProposal(t)
    /\ ProposalOutcome(Indexed(t, finalized, RowsOfProposal(t)))

TryProposal ==
    /\ UNCHANGED avars
    /\ pc = "propose" /\ looping_period # 0
    /\ IndexedProposal(TryProposedRow(M, St, row_index, ProposedRow))
    /\ UNCHANGED <<machine, outer_assignments, row_index, wrap_mismatch, finalize_start,
                   finalized>>

NotLooping ==
    /\ UNCHANGED avars
    /\ pc = "propose" /\ looping_period = 0
    /\ pc' = "normal"
    /\ accessed' = {}
    /\ UNCHANGED <<machine, data, left, psi, outer_assignments, row_index, looping_period,
                   log_level, result, last, seen, committed, wrap_mismatch, finalize_start,
                   finalized>>

(* run, line 184 *)
NormalModeDue == looping_period = 0 /\ row_index # RowsLeft - 1

NextIteration ==
    /\ row_index' = row_index + 1
    /\ pc' = "top"

(* variant: a latch of one always reports a complete result *)
LatchOutcomeAlwaysComplete(latch, complete) ==
    IF latch = "true"
    THEN pc' = "returned" /\ result' = "complete" /\ UNCHANGED row_index
    ELSE IF latch = "none" /\ M.has_outer
    THEN pc' = "returned" /\ result' = "UnknownLatch" /\ UNCHANGED row_index
    ELSE NextIteration /\ UNCHANGED result

(* variant: an unknown latch is taken for a latch that is not one *)
LatchOutcomeIgnoreUnknown(latch, complete) ==
    IF latch = "true"
    THEN /\ pc' = "returned"
         /\ result' = IF complete THEN "complete" ELSE "BlockMachineLookupIncomplete"
         /\ UNCHANGED row_index
    ELSE NextIteration /\ UNCHANGED result

(* run, lines 188-207: the latch decides how the iteration ends *)
LatchOutcome(latch, complete) ==
    IF latch = "true"
    THEN /\ pc' = "returned"
         /\ result' = IF complete THEN "complete" ELSE "BlockMachineLookupIncomplete"
         /\ UNCHANGED row_index
    ELSE IF latch = "none" /\ M.has_outer
    THEN pc' = "returned" /\ result' = "UnknownLatch" /\ UNCHANGED row_index
    ELSE NextIteration /\ UNCHANGED result

(* OuterQuery::is_complete *)
IsComplete(lhs) == \A i \in DOMAIN lhs : AffIsConst(lhs[i])

(* run, lines 184-207: normal mode.  r is the outcome of compute_row. *)
NormalOutcome(r) ==
    /\ SetSt(r.st)
    /\ outer_assignments' = outer_assignments \o r.oa
    /\ IF r.status # "ok"
       THEN Panic(r.status) /\ UNCHANGED row_index
       ELSE LatchOutcome(LatchValue(M, r.st, row_index), IsComplete(r.st.left))

(* compute_row works on row_index and the row after it *)
RowsOfComputeRow(r) == {row_index, row_index + 1} \cup RolledBackRows(psi, r.st.psi, row_index)

IndexedComputeRow(r) ==
    /\ accessed' = RowsOfComputeRow(r)
    /\ NormalOutcome(Indexed(r, finalized, RowsOfComputeRow(r)))

NormalRow ==
    /\ UNCHANGED avars
    /\ pc = "normal" /\ NormalModeDue
    /\ IF ~AssertHasRow(St, row_index)
       THEN /\ Panic("assert_failed")
            /\ accessed' = {}
            /\ UNCHANGED <<data, left, psi, outer_assignments, row_index>>
       ELSE IndexedComputeRow(ComputeRow(M, EnsureHasNextRow(M, St, row_index), row_index))
    /\ Step("compute")
    /\ UNCHANGED <<machine, looping_period, log_level, committed, wrap_mismatch,
                   finalize_start, finalized>>

(* run, line 184: nothing to compute in this iteration *)
SkipRow ==
    /\ UNCHANGED avars
    /\ pc = "normal" /\ ~NormalModeDue
    /\ NextIteration
    /\ accessed' = {}
    /\ UNCHANGED <<machine, data, left, psi, outer_assignments, looping_period,
                   log_level, result, last, seen, committed, wrap_mismatch, finalize_start,
                   finalized>>

(* run, lines 210-215: the final assertion and the result *)
Finish ==
    /\ UNCHANGED avars
    /\ pc = "top" /\ row_index = RowsLeft
    /\ IF Len(data) + M.row_offset = M.degree + 1
       THEN pc' = "done" /\ result' = "complete"
       ELSE Panic("assert_failed")
    /\ accessed' = {}
    /\ UNCHANGED <<machine, data, left, psi, outer_assignments, row_index, looping_period,
                   log_level, last, seen, committed, wrap_mismatch, finalize_start, finalized>>

(* generate (witness_generator), lines 65-84: the values of the rows are
   collected, the wrap-around row is compared with row 0, a difference is
   printed, and the values are returned. *)
CellNumber(cell) == IF IsKnown(cell) THEN cell.v ELSE 0

WrapAroundDiffers(c) == CellNumber(data[M.degree + 1][c]) # CellNumber(data[1][c])

Generate ==
    /\ UNCHANGED avars
    /\ pc = "done" /\ ~M.has_outer /\ M.row_offset = 0
    /\ wrap_mismatch' = {c \in M.witnesses : WrapAroundDiffers(c)}
    /\ pc' = "generated"
    /\ accessed' = {}
    /\ UNCHANGED <<machine, data, left, psi, outer_assignments, row_index, looping_period,
                   log_level, result, last, seen, committed, finalize_start, finalized>>

VmNext ==
    \/ CheckLoop
    \/ TryProposal
    \/ NotLooping
    \/ NormalRow
    \/ SkipRow
    \/ Finish
    \/ Generate

(***************************************************************************)
(* The analyzer and the operations on Analyzed as a state machine.         *)
(***************************************************************************)
(* The references handed to resolve_ref: a written namespace or none, a name *)
WrittenNamespaces == {None, Some("T"), Some("Global")}
WrittenNames == {"%N", "a", "L1", "w"}

NoResolution == [namespace |-> None, name |-> "", panic |-> FALSE, result |-> <<>>]

AInit ==
    /\ program \in 1..Len(Programs)
    /\ statement = 1
    /\ analyzer = NewAnalyzer
    /\ analyzed = EmptyAnalyzed
    /\ phase = "analyze"
    /\ ops = 0
    /\ op = [name |-> "none", arg |-> {}]
    /\ before = EmptyAnalyzed
    /\ resolution = NoResolution

AIdle ==
    /\ program = 1
    /\ statement = 1
    /\ analyzer = NewAnalyzer
    /\ analyzed = EmptyAnalyzed
    /\ phase = "idle"
    /\ ops = 0
    /\ op = [name |-> "none", arg |-> {}]
    /\ before = EmptyAnalyzed
    /\ resolution = NoResolution

VmIdle ==
    /\ machine = 1
    /\ data = <<>>
    /\ left = <<>>
    /\ psi = <<>>
    /\ outer_assignments = <<>>
    /\ row_index = 0
    /\ looping_period = 0
    /\ log_level = "Info"
    /\ pc = "idle"
    /\ result = "none"
    /\ last = [ev |-> "init", row |-> 0]
    /\ seen = {}
    /\ committed = {}
    /\ wrap_mismatch = {}
    /\ finalize_start = 1
    /\ finalized = <<>>
    /\ accessed = {}

NextStatement == Programs[program][statement]

AnalyzerStep(an) ==
    /\ analyzer' = an
    /\ statement' = statement + 1
    /\ phase' = IF an.error = "none" THEN "analyze" ELSE "panic"
    /\ resolution' = NoResolution
    /\ UNCHANGED <<program, analyzed, ops, op, before, ivars, fvars, vmvars>>

(* process_file_contents, lines 92-94: the next statement is a namespace *)
HandleNamespace ==
    /\ phase = "analyze" /\ statement <= Len(Programs[program])
    /\ NextStatement.stmt = "Namespace"
    /\ AnalyzerStep(handle_statement(analyzer, NextStatement))

(* process_file_contents, lines 92-94: any other statement *)
HandleStatement ==
    /\ phase = "analyze" /\ statement <= Len(Programs[program])
    /\ NextStatement.stmt # "Namespace"
    /\ AnalyzerStep(handle_statement(analyzer, NextStatement))

(* Driver::resolve_ref, called by the expression processor on a reference of
   the statement at hand *)
ResolveRef ==
    /\ phase = "analyze" /\ statement <= Len(Programs[program])
    /\ \E namespace \in WrittenNamespaces : \E name \in WrittenNames :
          resolution' =
             IF ResolveRefPanics(analyzer, namespace, name)
             THEN [namespace |-> namespace, name |-> name, panic |-> TRUE, result |-> <<>>]
             ELSE [namespace |-> namespace, name |-> name, panic |-> FALSE,
                   result |-> resolve_ref(analyzer, namespace, name)]
    /\ UNCHANGED <<program, statement, analyzer, analyzed, phase, ops, op, before, ivars, fvars, vmvars>>

(* PILAnalyzer::condense *)
Condense ==
    /\ phase = "analyze" /\ statement > Len(Programs[program])
    /\ IF CondensePanics(analyzer)
       THEN phase' = "panic" /\ UNCHANGED analyzed
       ELSE phase' = "analyzed" /\ analyzed' = condense(analyzer)
    /\ resolution' = NoResolution
    /\ UNCHANGED <<program, statement, analyzer, ops, op, before, ivars, fvars, vmvars>>

Operation(name, arg) ==
    /\ op' = [name |-> name, arg |-> arg]
    /\ before' = analyzed
    /\ ops' = ops + 1
    /\ UNCHANGED <<program, statement, analyzer, resolution, ivars, fvars, vmvars>>

AllPolyIDs(a) ==
    {SymbolPolyID(a.definitions[n].symbol) :
        n \in {m \in DOMAIN a.definitions : IsPoly(a.definitions[m].symbol)}}
      \cup IntermediateIDs(a)

RemoveOutcome(r) ==
    /\ analyzed' = r.analyzed
    /\ phase' = IF r.panic THEN "panic" ELSE "analyzed"

RemovePolynomials ==
    /\ phase = "analyzed" /\ ops < MaxOps
    /\ \E to_remove \in SUBSET AllPolyIDs(analyzed) :
          /\ RemoveOutcome(remove_polynomials(analyzed, to_remove))
          /\ Operation("remove_polynomials", to_remove)

(* the expressions given to append_polynomial_identity: a committed column *)
NewIdentities(a) ==
    {Reference([name |-> n, poly_id |-> SymbolPolyID(a.definitions[n].symbol),
                index |-> None, next |-> FALSE]) :
        n \in {m \in DOMAIN a.definitions :
                  IsPolyOfType(a.definitions[m].symbol, "Committed")
                      /\ a.definitions[m].symbol.length = None}}

AppendPolynomialIdentity ==
    /\ phase = "analyzed" /\ ops < MaxOps
    /\ \E identity \in NewIdentities(analyzed) :
          /\ analyzed' = append_polynomial_identity(analyzed, identity).analyzed
          /\ Operation("append_polynomial_identity", identity)
    /\ UNCHANGED phase

RemoveIdentities ==
    /\ phase = "analyzed" /\ ops < MaxOps
    /\ \E to_remove \in SUBSET (0..(Len(analyzed.identities) - 1)) :
          /\ IF RemoveIdentitiesPanics(analyzed, to_remove)
             THEN phase' = "panic" /\ UNCHANGED analyzed
             ELSE phase' = "analyzed" /\ analyzed' = remove_identities(analyzed, to_remove)
          /\ Operation("remove_identities", to_remove)

ANext ==
    \/ HandleNamespace
    \/ HandleStatement
    \/ ResolveRef
    \/ Condense
    \/ RemovePolynomials
    \/ AppendPolynomialIdentity
    \/ RemoveIdentities

(***************************************************************************)
(* PILAnalyzer::process_file over a file system.                           *)
(***************************************************************************)
IIdle ==
    /\ fs = 1
    /\ root = <<>>
    /\ stack = <<>>
    /\ included_files = {}
    /\ current_file = <<>>
    /\ folded = <<>>
    /\ ipc = "idle"

IInit ==
    /\ fs \in 1..Len(FileSystems)
    /\ root = <<>>
    /\ stack = <<>>
    /\ included_files = {}
    /\ current_file = <<>>
    /\ folded = <<>>
    /\ ipc = "start"

FS == FileSystems[fs]
Top == stack[Len(stack)]
TopStatement == FS.files[Top.file][Top.pos]
Advance == [stack EXCEPT ![Len(stack)].pos = @ + 1]

Frame(file, old_current_file) == [file |-> file, pos |-> 1, old_current_file |-> old_current_file]

othervars == <<program, statement, analyzed, phase, ops, op, before, resolution, fvars, vmvars>>

(* process_file, lines 64-74, followed by the start of process_file_contents,
   lines 78-83; st is the stack the call is made from *)
EnterFile(path, st) ==
    IF path = NotFound
    THEN ipc' = "panic" /\ UNCHANGED <<stack, included_files, current_file>>
    ELSE IF path \in included_files
    THEN stack' = st /\ UNCHANGED <<included_files, current_file, ipc>>
    ELSE /\ included_files' = included_files \cup {path}
         /\ stack' = Append(st, Frame(path, current_file))
         /\ current_file' = path
         /\ ipc' = "running"

(* process_pil_file: the call process_file(path) on a new analyzer *)
ProcessFile ==
    /\ ipc = "start"
    /\ \E path \in RootPaths(FS) :
          /\ root' = Canonicalize(FS, path)
          /\ EnterFile(Canonicalize(FS, path), stack)
    /\ UNCHANGED <<fs, folded, analyzer, othervars>>

(* handle_statement on Include: handle_include and process_file *)
HandleInclude ==
    /\ ipc = "running" /\ stack # <<>> /\ Top.pos <= Len(FS.files[Top.file])
    /\ TopStatement.stmt = "Include"
    /\ EnterFile(Canonicalize(FS, IncludePath(current_file, TopStatement.path)), Advance)
    /\ UNCHANGED <<fs, root, folded, analyzer, othervars>>

(* handle_statement on any other statement of the file *)
FoldStatement ==
    /\ ipc = "running" /\ stack # <<>> /\ Top.pos <= Len(FS.files[Top.file])
    /\ TopStatement.stmt # "Include"
    /\ analyzer' = handle_statement(analyzer, TopStatement)
    /\ folded' = Append(folded, <<Top.file, Top.pos>>)
    /\ stack' = Advance
    /\ ipc' = IF handle_statement(analyzer, TopStatement).error = "none" THEN "running" ELSE "panic"
    /\ UNCHANGED <<fs, root, included_files, current_file, othervars>>

(* process_file_contents, lines 95-97: the end of a file *)
EndOfFile ==
    /\ ipc = "running" /\ stack # <<>> /\ Top.pos > Len(FS.files[Top.file])
    /\ current_file' = AfterFileContents(Top, current_file)
    /\ stack' = SubSeq(stack, 1, Len(stack) - 1)
    /\ ipc' = IF Len(stack) = 1 THEN "done" ELSE "running"
    /\ UNCHANGED <<fs, root, included_files, folded, analyzer, othervars>>

INext ==
    \/ ProcessFile
    \/ HandleInclude
    \/ FoldStatement
    \/ EndOfFile

(***************************************************************************)
(* Single calls of the functions of the program that have no state of       *)
(* their own: call is the function and its arguments, ret the result.       *)
(***************************************************************************)
NoCall == [fn |-> "none"]

NoRow == [pc |-> "idle"]

FIdle == call = NoCall /\ ret = <<>> /\ cr = NoRow /\ crlog = <<>> /\ steps = 0

FInit == call = NoCall /\ ret = <<>> /\ cr = NoRow /\ crlog = <<>> /\ steps = 0

Called(fn, args, value) ==
    /\ call' = [fn |-> fn, args |-> args]
    /\ ret' = value
    /\ UNCHANGED <<program, statement, analyzer, analyzed, phase, ops, op, before, resolution,
                   ivars, rvars, vmvars>>

(***************************************************************************)
(* Comparison of AlgebraicReference (analyzed/mod.rs, lines 456-486).      *)
(* An Ordering is "Less", "Equal" or "Greater"; a call returns a value or   *)
(* aborts on a failed assertion.                                           *)
(***************************************************************************)
Aborted == [aborted |-> TRUE]

Returned(value) == [aborted |-> FALSE, value |-> value]

Ordering(a, b) == IF a < b THEN "Less" ELSE IF a > b THEN "Greater" ELSE "Equal"

(* the derived order of the variants of PolynomialType *)
PolynomialTypeOrder(ptype) ==
    CASE ptype = "Committed" -> 0
      [] ptype = "Constant" -> 1
      [] ptype = "Intermediate" -> 2

(* the derived Ord of PolyID: id, then ptype *)
PolyIDCmp(a, b) ==
    IF a.id # b.id THEN Ordering(a.id, b.id)
    ELSE Ordering(PolynomialTypeOrder(a.ptype), PolynomialTypeOrder(b.ptype))

BoolOrder(b) == IF b THEN 1 ELSE 0

(* variant: references of the same polynomial are ordered by their name *)
CmpByName(a, b) ==
    IF PolyIDCmp(a.poly_id, b.poly_id) # "Equal" THEN Returned(PolyIDCmp(a.poly_id, b.poly_id))
    ELSE IF ~(a.index = None /\ b.index = None) THEN Aborted
    ELSE IF a.name # b.name THEN Returned("Less")
    ELSE Returned(Ordering(BoolOrder(a.next), BoolOrder(b.next)))

(* Ord for AlgebraicReference *)
cmp(a, b) ==
    IF PolyIDCmp(a.poly_id, b.poly_id) # "Equal" THEN Returned(PolyIDCmp(a.poly_id, b.poly_id))
    ELSE IF ~(a.index = None /\ b.index = None) THEN Aborted
    ELSE Returned(Ordering(BoolOrder(a.next), BoolOrder(b.next)))

(* PartialEq for AlgebraicReference *)
eq(a, b) ==
    IF ~(a.index = None /\ b.index = None) THEN Aborted
    ELSE Returned(a.poly_id = b.poly_id /\ a.next = b.next)

(* Hash for AlgebraicReference: the values fed to the hasher *)
hash(a) == <<a.poly_id, a.index, a.next>>

(* The references the comparisons are called with. *)
MaxPolyID == 1

AlgebraicReferences ==
    [name : {"T.a", "T.b"},
     poly_id : [id : 0..MaxPolyID, ptype : {"Committed", "Constant"}],
     index : {None, Some(0)},
     next : BOOLEAN]

CallCmp ==
    /\ call = NoCall
    /\ \E a \in AlgebraicReferences : \E b \in AlgebraicReferences : Called("cmp", <<a, b>>, cmp(a, b))

CallEq ==
    /\ call = NoCall
    /\ \E a \in AlgebraicReferences : \E b \in AlgebraicReferences : Called("eq", <<a, b>>, eq(a, b))

CallHash ==
    /\ call = NoCall
    /\ \E a \in AlgebraicReferences : \E b \in AlgebraicReferences : Called("hash", <<a, b>>, <<hash(a), hash(b)>>)

(***************************************************************************)
(* The query callback of compile_asm_string (compiler.rs, lines 85-99).    *)
(* A query string is a sequence of tokens: the word "input" in quotes,     *)
(* the bare word, a comma, a blank, a decimal digit or another character.  *)
(***************************************************************************)
QuotedInput == "\"input\""

Digits == {"0", "1", "2"}

Tokens == {QuotedInput, "input", ",", " ", "x"} \cup Digits

DigitValue(d) == CASE d = "0" -> 0 [] d = "1" -> 1 [] d = "2" -> 2

(* str::split(','): the pieces between the commas *)
RECURSIVE Split(_, _, _)
Split(query, i, piece) ==
    IF i > Len(query) THEN << piece >>
    ELSE IF query[i] = "," THEN << piece >> \o Split(query, i + 1, <<>>)
    ELSE Split(query, i + 1, Append(piece, query[i]))

(* str::trim *)
RECURSIVE Trim(_)
Trim(item) ==
    IF item = <<>> THEN item
    ELSE IF item[1] = " " THEN Trim(Tail(item))
    ELSE IF item[Len(item)] = " " THEN Trim(SubSeq(item, 1, Len(item) - 1))
    ELSE item

Items(query) == [i \in DOMAIN Split(query, 1, <<>>) |-> Trim(Split(query, 1, <<>>)[i])]

(* str::parse::<usize>: None when the item is not a number *)
RECURSIVE Decimal(_, _)
Decimal(item, n) ==
    IF n = 0 THEN 0 ELSE 10 * Decimal(item, n - 1) + DigitValue(item[n])

ParseUsize(item) ==
    IF item # <<>> /\ \A i \in DOMAIN item : item[i] \in Digits
    THEN Some(Decimal(item, Len(item)))
    ELSE None

(* Vec::get *)
Get(inputs, index) == IF index < Len(inputs) THEN Some(inputs[index + 1]) ELSE None

(* the match on items[0] *)
InputQuery(items, inputs) ==
    IF items[1] = << QuotedInput >>
    THEN (IF ParseUsize(items[2]) = None THEN Aborted
          ELSE Returned(Get(inputs, ParseUsize(items[2])[1])))
    ELSE Returned(None)

query_callback(inputs, query) ==
    IF Len(Items(query)) # 2 THEN Aborted
    ELSE InputQuery(Items(query), inputs)

(* The query strings and inputs the callback is called with. *)
MaxQueryLen == 4

Queries == UNION {[1..n -> Tokens] : n \in 0..MaxQueryLen}

InputVectors == {<<>>, <<3, 1, 4>>}

CallQueryCallback ==
    /\ call = NoCall
    /\ \E inputs \in InputVectors : \E query \in Queries :
          Called("query_callback", <<inputs, query>>, query_callback(inputs, query))

(* The expressions and identities the functions are called with. *)
Leaves == {Num(1), W("a"), WN("a"), F("f"), FN("f")}

Products == {<<o, l, r>> : o \in {"add", "mul"}, l \in Leaves, r \in Leaves}

Nested == {Sub(Num(1), e) : e \in Products}

Expressions == Leaves \cup Products \cup Nested

Selectors == {NoExpr, W("a"), F("f"), FN("f")}

ExpressionLists == {<<>>} \cup {<<e>> : e \in Leaves} \cup {<<Num(1), e>> : e \in Leaves}

SelectedSides == [selector : Selectors, expressions : ExpressionLists]

Identities ==
    {PolyIdentity(e) : e \in Expressions}
      \cup [kind : {"Plookup"}, left : SelectedSides, right : SelectedSides]

(* the identities a VmProcessor is made with *)
MaxIdentities == 3

MachineIdentities ==
    {PolyIdentity(Sub(WN("a"), W("a"))), PolyIdentity(Mul(F("f"), W("a"))),
     Plookup(W("a"), FN("f")), Plookup(W("a"), F("f"))}

IdentityLists == UNION {[1..n -> MachineIdentities] : n \in 0..MaxIdentities}

(* AlgebraicExpression::contains_next_ref(e) *)
CallExprContainsNextRef ==
    /\ call = NoCall
    /\ \E e \in Expressions : Called("expr_contains_next_ref", e, ExprContainsNextRef(e))

(* Identity::contains_next_ref *)
CallContainsNextRef ==
    /\ call = NoCall
    /\ \E id \in Identities : Called("contains_next_ref", id, ContainsNextRef(id))

(* VmProcessor::new: the two lists of identities *)
CallNew ==
    /\ call = NoCall
    /\ \E ids \in IdentityLists :
          Called("new", ids,
                 [identities_with_next_ref |-> IdentitiesWithNextRef([identities |-> ids]),
                  identities_without_next_ref |-> IdentitiesWithoutNextRef([identities |-> ids])])

(***************************************************************************)
(* The text form of an Analyzed (Display) and the parser.  A text is a     *)
(* sequence of lines, a line a sequence of tokens: a word or sign, a       *)
(* number, or a name with its namespace if one is written ("T.a" is the    *)
(* token of <<"T", "a">>).                                                 *)
(***************************************************************************)
Word(s) == [word |-> s]
NumberToken(n) == [number |-> n]
Name(n) == [name |-> n]

IsWord(tok, s) == "word" \in DOMAIN tok /\ tok.word = s

IsNumber(tok) == "number" \in DOMAIN tok

LocalName(name) == Name(<< name[Len(name)] >>)

(* Display for an expression: binary operations are written in brackets *)
RECURSIVE PrintExpression(_)
PrintExpression(e) ==
    IF e[1] = "Number" THEN << NumberToken(e[2]) >>
    ELSE IF e[1] = "Reference"
    THEN << Name(e[2].name) >>
           \o (IF e[2].index = None THEN <<>>
               ELSE << Word("["), NumberToken(e[2].index[1]), Word("]") >>)
           \o (IF e[2].next THEN << Word("'") >> ELSE <<>>)
    ELSE << Word("(") >> \o PrintExpression(e[2]) \o << Word(e[3]) >>
           \o PrintExpression(e[4]) \o << Word(")") >>

RECURSIVE PrintExpressionList(_, _)
PrintExpressionList(es, i) ==
    IF i > Len(es) THEN <<>>
    ELSE (IF i > 1 THEN << Word(",") >> ELSE <<>>)
           \o PrintExpression(es[i]) \o PrintExpressionList(es, i + 1)

(* Display for SelectedExpressions: selector { e1, e2, ... } *)
PrintSelected(sel) ==
    (IF sel.selector = None THEN <<>> ELSE PrintExpression(sel.selector[1]))
      \o << Word("{") >> \o PrintExpressionList(sel.expressions, 1) \o << Word("}") >>

(* Display for an identity: left = right for a difference, expr = 0 for any
   other polynomial identity, selected expressions around "in" for a lookup *)
PrintIdentity(identity) ==
    IF identity.kind = "Polynomial"
    THEN (IF identity.left.selector[1][1] = "BinaryOperation"
             /\ identity.left.selector[1][3] = "-"
          THEN PrintExpression(identity.left.selector[1][2]) \o << Word("=") >>
                  \o PrintExpression(identity.left.selector[1][4]) \o << Word(";") >>
          ELSE PrintExpression(identity.left.selector[1])
                  \o << Word("="), NumberToken(0), Word(";") >>)
    ELSE PrintSelected(identity.left) \o << Word("in") >> \o PrintSelected(identity.right)
            \o << Word(";") >>

PrintLength(symbol) ==
    IF symbol.length = None THEN <<>>
    ELSE << Word("["), NumberToken(symbol.length[1]), Word("]") >>

(* Display for a definition: constant, col fixed, col witness *)
PrintSymbol(symbol, value) ==
    IF symbol.kind = ConstantKind
    THEN << Word("constant"), LocalName(symbol.absolute_name), Word("=") >>
            \o PrintExpression(value[1].expressions[1]) \o << Word(";") >>
    ELSE IF symbol.kind = PolyKind("Constant")
    THEN << Word("col"), Word("fixed"), LocalName(symbol.absolute_name),
            Word("("), Name(<<"i">>), Word(")"), Word("{") >>
            \o PrintExpression(value[1].expressions[1]) \o << Word("}"), Word(";") >>
    ELSE << Word("col"), Word("witness"), LocalName(symbol.absolute_name) >>
            \o PrintLength(symbol)
            \o (IF value = None THEN <<>>
                ELSE << Word("("), Name(<<"i">>), Word(")"), Word("query") >>
                        \o PrintExpression(value[1].expressions[1]))
            \o << Word(";") >>

(* Display for an intermediate column *)
PrintIntermediate(symbol, e) ==
    << Word("col"), LocalName(symbol.absolute_name), Word("=") >>
       \o PrintExpression(e) \o << Word(";") >>

(* Display for a public declaration *)
PrintPublic(decl) ==
    << Word("public"), Name(<< decl.name >>), Word("="), Name(decl.polynomial.name) >>
       \o (IF decl.polynomial.index = None THEN <<>>
           ELSE << Word("["), NumberToken(decl.polynomial.index[1]), Word("]") >>)
       \o << Word("("), NumberToken(decl.index), Word(")"), Word(";") >>

SymbolOf(a, name) ==
    IF name \in DOMAIN a.definitions THEN a.definitions[name].symbol
    ELSE a.intermediate_columns[name].symbol

(* the namespace header in front of the first definition of a namespace *)
PrintHeader(symbol, namespace) ==
    IF Len(symbol.absolute_name) = 1 \/ << symbol.absolute_name[1] >> = namespace THEN <<>>
    ELSE << << Word("namespace"), Name(<< symbol.absolute_name[1] >>), Word("("),
               NumberToken(symbol.degree), Word(")"), Word(";") >> >>

NamespaceAfter(symbol, namespace) ==
    IF Len(symbol.absolute_name) = 1 THEN namespace ELSE << symbol.absolute_name[1] >>

PrintDefinition(a, name) ==
    IF name \in DOMAIN a.definitions
    THEN PrintSymbol(a.definitions[name].symbol, a.definitions[name].value)
    ELSE PrintIntermediate(a.intermediate_columns[name].symbol,
                           a.intermediate_columns[name].value)

(* Display for Analyzed: the statements of source_order, one per line *)
RECURSIVE PrintFrom(_, _, _)
PrintFrom(a, i, namespace) ==
    IF i > Len(a.source_order) THEN <<>>
    ELSE IF a.source_order[i][1] = "Definition"
    THEN PrintHeader(SymbolOf(a, a.source_order[i][2]), namespace)
            \o << PrintDefinition(a, a.source_order[i][2]) >>
            \o PrintFrom(a, i + 1, NamespaceAfter(SymbolOf(a, a.source_order[i][2]), namespace))
    ELSE IF a.source_order[i][1] = "PublicDeclaration"
    THEN << PrintPublic(a.public_declarations[a.source_order[i][2]]) >>
            \o PrintFrom(a, i + 1, namespace)
    ELSE << PrintIdentity(a.identities[a.source_order[i][2] + 1]) >>
            \o PrintFrom(a, i + 1, namespace)

to_string(a) == PrintFrom(a, 1, None)

(* The parser: one line of tokens to statements.  A parse result is a
   record of the expression or statement read and the position after it. *)
At(toks, i) == IF i <= Len(toks) THEN toks[i] ELSE Word("")

Read(e, next) == [e |-> e, next |-> next]

WrittenNamespace(tok) == IF Len(tok.name) = 2 THEN Some(tok.name[1]) ELSE None

(* a reference: name, [index], ' *)
ParseNext(toks, namespace, name, index, i) ==
    IF IsWord(At(toks, i), "'")
    THEN Read(ParsedRef(namespace, name, index, TRUE), i + 1)
    ELSE Read(ParsedRef(namespace, name, index, FALSE), i)

ParseReference(toks, i) ==
    IF IsWord(At(toks, i + 1), "[")
    THEN ParseNext(toks, WrittenNamespace(toks[i]), toks[i].name[Len(toks[i].name)],
                   Some(toks[i + 2].number), i + 4)
    ELSE ParseNext(toks, WrittenNamespace(toks[i]), toks[i].name[Len(toks[i].name)], None, i + 1)

ParseAtom(toks, i) ==
    IF IsNumber(At(toks, i)) THEN Read(Number(toks[i].number), i + 1)
    ELSE ParseReference(toks, i)

RECURSIVE ParseExpression(_, _)
(* the right operand and the closing bracket *)
ParseRight(toks, l, r) == Read(BinaryOperation(l.e, toks[l.next].word, r.e), r.next + 1)

ParseOperation(toks, l) == ParseRight(toks, l, ParseExpression(toks, l.next + 1))

ParseExpression(toks, i) ==
    IF IsWord(At(toks, i), "(") THEN ParseOperation(toks, ParseExpression(toks, i + 1))
    ELSE ParseAtom(toks, i)

IsOperator(tok) == "word" \in DOMAIN tok /\ tok.word \in {"+", "-", "*"}

ParseOperand(toks, l, r) == Read(BinaryOperation(l.e, toks[l.next].word, r.e), r.next)

(* an expression that may have one operation without brackets *)
ParseOuter(toks, l) ==
    IF IsOperator(At(toks, l.next))
    THEN ParseOperand(toks, l, ParseExpression(toks, l.next + 1))
    ELSE l

ParseTop(toks, i) == ParseOuter(toks, ParseExpression(toks, i))

RECURSIVE ParseList(_, _, _)
ParseItem(toks, acc, e) ==
    IF IsWord(At(toks, e.next), ",") THEN ParseList(toks, e.next + 1, Append(acc, e.e))
    ELSE Read(Append(acc, e.e), e.next + 1)

(* e1, e2, ... } *)
ParseList(toks, i, acc) ==
    IF IsWord(At(toks, i), "}") THEN Read(acc, i + 1)
    ELSE ParseItem(toks, acc, ParseTop(toks, i))

WithSelector(selector, list) == Read(Selected(selector, list.e), list.next)

AfterSelector(toks, s) == WithSelector(Some(s.e), ParseList(toks, s.next + 1, <<>>))

ParseSelected(toks, i) ==
    IF IsWord(At(toks, i), "{") THEN WithSelector(None, ParseList(toks, i + 1, <<>>))
    ELSE AfterSelector(toks, ParseTop(toks, i))

ParseLookupRight(l, r) == Read(PlookupIdentity(l.e, r.e), r.next + 1)

ParseLookup(toks, l) == ParseLookupRight(l, ParseSelected(toks, l.next + 1))

ParseEquation(l, r) == Read(PolynomialIdentity(Minus(l.e, r.e)), r.next + 1)

(* left = right;  or  selected in selected; *)
ParseIdentityAfter(toks, i, l) ==
    IF IsWord(At(toks, l.next), "=") THEN ParseEquation(l, ParseTop(toks, l.next + 1))
    ELSE ParseLookup(toks, ParseSelected(toks, i))

ParseIdentity(toks, i) ==
    IF IsWord(At(toks, i), "{") THEN ParseLookup(toks, ParseSelected(toks, i))
    ELSE ParseIdentityAfter(toks, i, ParseTop(toks, i))

ParseConstant(name, e) == Read(ConstantDefinition(name, << e.e >>), e.next + 1)

ParseNamespace(name, e) == Read(Namespace(name, e.e), e.next + 2)

ParsePublic(toks, name, r) ==
    Read(PublicDeclarationStatement(name, r.e, toks[r.next + 1].number), r.next + 4)

ParseQuery(name, array_size, e) ==
    Read(PolynomialCommitDeclaration(name, array_size, << e.e >>), e.next + 1)

ParseWitnessValue(toks, name, array_size, i) ==
    IF IsWord(At(toks, i), "(") THEN ParseQuery(name, array_size, ParseTop(toks, i + 4))
    ELSE Read(PolynomialCommitDeclaration(name, array_size, <<>>), i + 1)

ParseWitness(toks, i) ==
    IF IsWord(At(toks, i + 1), "[")
    THEN ParseWitnessValue(toks, toks[i].name[1], Some(toks[i + 2].number), i + 4)
    ELSE ParseWitnessValue(toks, toks[i].name[1], None, i + 1)

ParseFixed(name, e) == Read(PolynomialConstantDefinition(name, << e.e >>), e.next + 2)

ParseIntermediate(name, e) == Read(PolynomialDefinition(name, << e.e >>), e.next + 1)

ParseColumn(toks, i) ==
    IF IsWord(At(toks, i), "witness") THEN ParseWitness(toks, i + 1)
    ELSE IF IsWord(At(toks, i), "fixed")
    THEN ParseFixed(toks[i + 1].name[1], ParseTop(toks, i + 6))
    ELSE ParseIntermediate(toks[i].name[1], ParseTop(toks, i + 2))

ParseStatement(toks, i) ==
    IF IsWord(toks[i], "constant") THEN ParseConstant(toks[i + 1].name[1], ParseTop(toks, i + 3))
    ELSE IF IsWord(toks[i], "namespace")
    THEN ParseNamespace(toks[i + 1].name[1], ParseTop(toks, i + 3))
    ELSE IF IsWord(toks[i], "public")
    THEN ParsePublic(toks, toks[i + 1].name[1], ParseReference(toks, i + 3))
    ELSE IF IsWord(toks[i], "col") THEN ParseColumn(toks, i + 1)
    ELSE ParseIdentity(toks, i)

(* a statement with the line it starts on *)
RECURSIVE ParseLine(_, _, _)
ParsedOn(toks, s, line) ==
    << [statement |-> s.e, line |-> line] >> \o ParseLine(toks, s.next, line)

ParseLine(toks, i, line) ==
    IF i > Len(toks) THEN <<>> ELSE ParsedOn(toks, ParseStatement(toks, i), line)

RECURSIVE ParseFrom(_, _)
ParseFrom(text, line) ==
    IF line > Len(text) THEN <<>>
    ELSE ParseLine(text[line], 1, line) \o ParseFrom(text, line + 1)

parse(text) == ParseFrom(text, 1)

(* PILAnalyzer::process_file_contents: the statements are handled in order *)
RECURSIVE HandleFrom(_, _, _)
HandleFrom(an, statements, i) ==
    IF i > Len(statements) THEN an
    ELSE HandleFrom(handle_statement(an, statements[i].statement), statements, i + 1)

(* Driver::source_position_to_source_ref for the symbols, public
   declarations and identities, in the order of source_order *)
RECURSIVE SourceRefs(_, _)
SourceRefs(statements, i) ==
    IF i > Len(statements) THEN <<>>
    ELSE (IF statements[i].statement.stmt = "Namespace" THEN <<>>
          ELSE << statements[i].line >>) \o SourceRefs(statements, i + 1)

Analysed(an, statements) ==
    IF an.error # "none" \/ CondensePanics(an) THEN [panic |-> TRUE]
    ELSE [panic |-> FALSE, analyzed |-> condense(an), source |-> SourceRefs(statements, 1)]

ProcessStatements(statements) ==
    Analysed(HandleFrom(NewAnalyzer, statements, 1), statements)

(* process_pil_file_contents *)
process_pil_file_contents(text) == ProcessStatements(parse(text))

(* Source files. *)
(* constant %N = 4; namespace T(%N); col fixed f(i) { 1 }; col witness a;
   col inter = a * f; col witness b(i) query f; inter - b' = 0; *)
WithIntermediate ==
    << << Word("constant"), Name(<<"%N">>), Word("="), NumberToken(4), Word(";") >>,
       << Word("namespace"), Name(<<"T">>), Word("("), Name(<<"%N">>), Word(")"), Word(";") >>,
       << Word("col"), Word("fixed"), Name(<<"f">>), Word("("), Name(<<"i">>), Word(")"),
          Word("{"), NumberToken(1), Word("}"), Word(";") >>,
       << Word("col"), Word("witness"), Name(<<"a">>), Word(";") >>,
       << Word("col"), Name(<<"inter">>), Word("="), Name(<<"a">>), Word("*"), Name(<<"f">>),
          Word(";") >>,
       << Word("col"), Word("witness"), Name(<<"b">>), Word("("), Name(<<"i">>), Word(")"),
          Word("query"), Name(<<"f">>), Word(";") >>,
       << Name(<<"inter">>), Word("-"), Name(<<"b">>), Word("'"), Word("="), NumberToken(0),
          Word(";") >> >>

(* namespace T(4); col fixed first(i) { 1 }; col witness x[2]; col witness y;
   x[1] = y; first { y, x[0] } in { first, first }; public out = x[1](3); *)
WithArrays ==
    << << Word("namespace"), Name(<<"T">>), Word("("), NumberToken(4), Word(")"), Word(";") >>,
       << Word("col"), Word("fixed"), Name(<<"first">>), Word("("), Name(<<"i">>), Word(")"),
          Word("{"), NumberToken(1), Word("}"), Word(";") >>,
       << Word("col"), Word("witness"), Name(<<"x">>), Word("["), NumberToken(2), Word("]"),
          Word(";") >>,
       << Word("col"), Word("witness"), Name(<<"y">>), Word(";") >>,
       << Name(<<"x">>), Word("["), NumberToken(1), Word("]"), Word("="), Name(<<"y">>),
          Word(";") >>,
       << Name(<<"first">>), Word("{"), Name(<<"y">>), Word(","), Name(<<"x">>), Word("["),
          NumberToken(0), Word("]"), Word("}"), Word("in"), Word("{"), Name(<<"first">>),
          Word(","), Name(<<"first">>), Word("}"), Word(";") >>,
       << Word("public"), Name(<<"out">>), Word("="), Name(<<"x">>), Word("["),
          NumberToken(1), Word("]"), Word("("), NumberToken(3), Word(")"), Word(";") >> >>

(* namespace Global(8); col fixed L1(i) { 1 };
   namespace T(8); col witness L1; col witness w;
   w * L1 = 0; T.w' = T.L1; *)
WithGlobal ==
    << << Word("namespace"), Name(<<"Global">>), Word("("), NumberToken(8), Word(")"),
          Word(";"),
          Word("col"), Word("fixed"), Name(<<"L1">>), Word("("), Name(<<"i">>), Word(")"),
          Word("{"), NumberToken(1), Word("}"), Word(";") >>,
       << Word("namespace"), Name(<<"T">>), Word("("), NumberToken(8), Word(")"), Word(";"),
          Word("col"), Word("witness"), Name(<<"L1">>), Word(";"),
          Word("col"), Word("witness"), Name(<<"w">>), Word(";") >>,
       << Name(<<"w">>), Word("*"), Name(<<"L1">>), Word("="), NumberToken(0), Word(";"),
          Name(<<"T", "w">>), Word("'"), Word("="), Name(<<"T", "L1">>), Word(";") >> >>

(* namespace U(4);
   namespace T(4);
   col witness a;
   namespace U(4);
   col witness b;
   T.a = b; *)
WithTwoNamespaces ==
    << << Word("namespace"), Name(<<"U">>), Word("("), NumberToken(4), Word(")"), Word(";") >>,
       << Word("namespace"), Name(<<"T">>), Word("("), NumberToken(4), Word(")"), Word(";") >>,
       << Word("col"), Word("witness"), Name(<<"a">>), Word(";") >>,
       << Word("namespace"), Name(<<"U">>), Word("("), NumberToken(4), Word(")"), Word(";") >>,
       << Word("col"), Word("witness"), Name(<<"b">>), Word(";") >>,
       << Name(<<"T", "a">>), Word("="), Name(<<"b">>), Word(";") >> >>

(* namespace T(4); col witness a; a = z;   (z is not declared) *)
WithUndefined ==
    << << Word("namespace"), Name(<<"T">>), Word("("), NumberToken(4), Word(")"), Word(";") >>,
       << Word("col"), Word("witness"), Name(<<"a">>), Word(";") >>,
       << Name(<<"a">>), Word("="), Name(<<"z">>), Word(";") >> >>

WrittenFiles ==
    {WithIntermediate, WithArrays, WithGlobal, WithTwoNamespaces, WithUndefined}

(* the same files after an empty first line *)
SourceFiles == WrittenFiles \cup {<< <<>> >> \o text : text \in WrittenFiles}

Legal(text) == ~process_pil_file_contents(text).panic

(* the files in printed form *)
PrintedFiles ==
    {to_string(process_pil_file_contents(text).analyzed) :
        text \in {t \in SourceFiles : Legal(t)}}

Reparsed(first, text) ==
    [first |-> first, text |-> text, second |-> process_pil_file_contents(text)]

PrintAndParse(first) ==
    IF first.panic THEN [first |-> first]
    ELSE Reparsed(first, to_string(first.analyzed))

CallToString ==
    /\ call = NoCall
    /\ \E text \in SourceFiles \cup PrintedFiles :
          Called("to_string", << text >>, PrintAndParse(process_pil_file_contents(text)))

(* apply_updates on the block machine: the states it is called in and the
   updates it is called with. *)
MaxUpdates == 2

BlockStart ==
    EnsureHasNextRow(Block,
                     [data |-> << FreshRow(Block) >>, left |-> Block.outer_left, psi |-> <<>>],
                     0)

UpdateConstraints ==
    {<<v, value>> : v \in {<<"x", 0>>, <<"x", 1>>, OuterX, OuterY}, value \in {0, 5}}

Updates ==
    UNION {[1..n -> UpdateConstraints] : n \in 0..MaxUpdates}

BlockStates ==
    {BlockStart} \cup {ApplyUpdates(Block, BlockStart, 0, <<c>>) : c \in UpdateConstraints}

CallApplyUpdates ==
    /\ call = NoCall
    /\ \E st \in BlockStates : \E updates \in Updates :
          Called("apply_updates", <<st, updates>>,
                 [flag |-> ApplyUpdatesFlag(updates),
                  st |-> ApplyUpdates(Block, st, 0, updates)])

FNext ==
    \/ CallToString
    \/ CallApplyUpdates
    \/ CallExprContainsNextRef
    \/ CallContainsNextRef
    \/ CallNew
    \/ CallCmp
    \/ CallEq
    \/ CallHash
    \/ CallQueryCallback

(***************************************************************************)
(* VmProcessor::compute_row step by step: the rows 0, 1, ... of a machine  *)
(* computed in normal mode.  cr holds the machine, the row, the processor  *)
(* state st, the position pc, the pass, the position pos in the list of    *)
(* identities of the pass, the record it of loop_until_no_progress, the    *)
(* completed identities and outer assignments of pass 1 and the error flag *)
(* of the zero check.  crlog holds the processor state the call started    *)
(* from, the identities handed to process_identity in the current sweep    *)
(* and in the whole call, the identities found complete, and whether       *)
(* pass 1 has ended.                                                       *)
(***************************************************************************)
(* Number of rows computed per machine. *)
MaxRows == 3

P == Machines[cr.machine]

(* variant: the identities with a reference to the next row come first *)
PassIdentitiesNextFirst(p, pass) ==
    IF pass = 1 THEN IdentitiesWithNextRef(p) ELSE IdentitiesWithoutNextRef(p)

(* compute_row, lines 273-288: the identities of a pass *)
PassIdentities(p, pass) ==
    IF pass = 1 THEN IdentitiesWithoutNextRef(p) ELSE IdentitiesWithNextRef(p)

CurrentIdentities == PassIdentities(P, cr.pass)

CurrentIdentity == CurrentIdentities[cr.pos]

(* What is left to find out about the row pair and the outer query: two for
   an unknown cell, one for a cell with a range constraint, one for every
   variable in the left side of the outer query. *)
RowWeight(row) ==
    2 * Cardinality({c \in DOMAIN row : row[c].k = "Unknown"})
      + Cardinality({c \in DOMAIN row : row[c].k = "RangeConstraint"})

LeftWeight(l) ==
    Cardinality(UNION {{<<i, v>> : v \in DOMAIN l[i].co} : i \in DOMAIN l})

Measure(st, r) ==
    RowWeight(RowOf(st, r)) + RowWeight(RowOf(st, r + 1)) + LeftWeight(st.left)

NewLog(st, r) ==
    [start |-> st, sweep |-> <<>>, processed |-> <<>>, completed |-> {}, pass1_ended |-> FALSE,
     iterations |-> 0, measure |-> Measure(st, r)]

(* run, lines 185-186: ensure_has_next_row and the start of compute_row *)
StartOfRow(m, st, r) ==
    [machine |-> m, row_index |-> r, pc |-> "identities", pass |-> 1, pos |-> 1,
     it |-> IterStart(st, {}, <<>>), oa1 |-> <<>>, done1 |-> {}, zero_err |-> FALSE]

InitialState(m) ==
    [data |-> << FreshRow(Machines[m]) >>, left |-> Machines[m].outer_left, psi |-> <<>>]

RInit ==
    /\ cr \in {StartOfRow(m, EnsureHasNextRow(Machines[m], InitialState(m), 0), 0) :
                  m \in 1..Len(Machines)}
    /\ crlog = NewLog(EnsureHasNextRow(P, InitialState(cr.machine), 0), 0)
    /\ steps = 0
    /\ call = NoCall /\ ret = <<>>

RStep ==
    /\ steps' = steps + 1
    /\ UNCHANGED <<call, ret, program, statement, analyzer, analyzed, phase, ops, op, before,
                resolution, ivars, vmvars>>

Sweeping(acc) == [st |-> acc.st, done |-> acc.done, progress |-> acc.progress, err |-> acc.err]

Swept(it, acc) ==
    [it EXCEPT !.st = acc.st, !.done = acc.done, !.progress = acc.progress, !.err = acc.err]

Logged(k, acc) ==
    [crlog EXCEPT !.sweep = Append(@, k), !.processed = Append(@, k),
                  !.completed = IF k \in acc.done THEN @ \cup {k} ELSE @]

(* process_identities, lines 400-403: a complete identity is passed over *)
SkipIdentity ==
    /\ cr.pc = "identities" /\ cr.pos <= Len(CurrentIdentities)
    /\ CurrentIdentity \in cr.it.done
    /\ cr' = [cr EXCEPT !.pos = @ + 1]
    /\ UNCHANGED crlog
    /\ RStep

Processed(k, acc) ==
    /\ cr' = [cr EXCEPT !.it = Swept(@, acc), !.pos = @ + 1]
    /\ crlog' = Logged(k, acc)

(* process_identities, lines 405-443: the next identity that is not complete *)
ProcessNextIdentity ==
    /\ cr.pc = "identities" /\ cr.pos <= Len(CurrentIdentities)
    /\ CurrentIdentity \notin cr.it.done
    /\ Processed(CurrentIdentity,
                 ProcessOneIdentity(P, Sweeping(cr.it), cr.row_index, "Unknown", CurrentIdentity))
    /\ RStep

(* process_identities, lines 446-450, and the '?' of line 347 *)
EndOfSweep ==
    /\ cr.pc = "identities" /\ cr.pos > Len(CurrentIdentities)
    /\ cr' = [cr EXCEPT !.pc = IF cr.it.err THEN "panic_unsatisfiable" ELSE "outer_query"]
    /\ UNCHANGED crlog
    /\ RStep

AfterStage(it, next) ==
    cr' = [cr EXCEPT !.it = it, !.pc = IF it.err THEN "panic_unsatisfiable" ELSE next]

(* loop_until_no_progress, lines 348-354 *)
OuterQueryStage ==
    /\ cr.pc = "outer_query"
    /\ AfterStage(StageOuterQuery(P, cr.it, cr.row_index), "inputs")
    /\ UNCHANGED crlog
    /\ RStep

(* loop_until_no_progress, line 356 *)
InputsStage ==
    /\ cr.pc = "inputs"
    /\ AfterStage(StageInputs(P, cr.it, cr.row_index), "queries")
    /\ UNCHANGED crlog
    /\ RStep

(* loop_until_no_progress, lines 358-373 *)
QueriesStage ==
    /\ cr.pc = "queries"
    /\ AfterStage(StageQueries(P, cr.it, cr.row_index), "loop_end")
    /\ UNCHANGED crlog
    /\ RStep

(* loop_until_no_progress, lines 375-377: progress, the loop goes on *)
NextLoopIteration ==
    /\ cr.pc = "loop_end" /\ cr.it.progress
    /\ cr' = [cr EXCEPT !.it.progress = FALSE, !.pos = 1, !.pc = "identities"]
    /\ crlog' = [crlog EXCEPT !.sweep = <<>>, !.iterations = @ + 1,
                              !.measure = Measure(cr.it.st, cr.row_index)]
    /\ RStep

(* compute_row, lines 279-288: the loop of pass 1 has ended, pass 2 starts *)
StartPass2 ==
    /\ cr.pc = "loop_end" /\ ~cr.it.progress /\ cr.pass = 1
    /\ cr' = [cr EXCEPT !.pass = 2, !.pos = 1, !.pc = "identities",
                        !.oa1 = cr.it.oa, !.done1 = cr.it.done,
                        !.it = IterStart(cr.it.st, {}, <<>>)]
    /\ crlog' = [crlog EXCEPT !.sweep = <<>>, !.pass1_ended = TRUE, !.iterations = 0,
                              !.measure = Measure(cr.it.st, cr.row_index)]
    /\ RStep

(* compute_row, lines 296-317: the loop of pass 2 has ended *)
EndOfPass2 ==
    /\ cr.pc = "loop_end" /\ ~cr.it.progress /\ cr.pass = 2
    /\ cr' = IF P.has_outer
             THEN [cr EXCEPT !.pc = "returned"]
             ELSE [cr EXCEPT !.pc = "zero_check", !.pass = 1, !.pos = 1]
    /\ crlog' = [crlog EXCEPT !.sweep = <<>>]
    /\ RStep

ZeroDone == IF cr.pass = 1 THEN cr.done1 ELSE cr.it.done

ZeroChecked(acc) == cr' = [cr EXCEPT !.zero_err = acc.err, !.pos = @ + 1]

(* compute_row, lines 301-314: process_identities under strategy Zero *)
ZeroCheckNext ==
    /\ cr.pc = "zero_check" /\ cr.pos <= Len(CurrentIdentities)
    /\ ZeroChecked(ProcessOneIdentity(P,
                       [st |-> cr.it.st, done |-> ZeroDone, progress |-> FALSE,
                        err |-> cr.zero_err],
                       cr.row_index, "Zero", CurrentIdentity))
    /\ UNCHANGED crlog
    /\ RStep

(* compute_row, lines 307-316: the end of one list in the zero check *)
ZeroCheckEnd ==
    /\ cr.pc = "zero_check" /\ cr.pos > Len(CurrentIdentities)
    /\ cr' = IF cr.zero_err THEN [cr EXCEPT !.pc = "panic_underconstrained"]
             ELSE IF cr.pass = 1 THEN [cr EXCEPT !.pass = 2, !.pos = 1]
             ELSE [cr EXCEPT !.pc = "returned"]
    /\ UNCHANGED crlog
    /\ RStep

(* run, lines 184-207: the next row in normal mode *)
RowLimit == IF MaxRows < P.degree - P.row_offset THEN MaxRows ELSE P.degree - P.row_offset

Started(st) ==
    /\ cr' = StartOfRow(cr.machine, st, cr.row_index + 1)
    /\ crlog' = NewLog(st, cr.row_index + 1)

MoreRows ==
    /\ cr.row_index + 1 < RowLimit
    /\ P.has_outer => LatchValue(P, cr.it.st, cr.row_index) = "false"

NextRow ==
    /\ cr.pc = "returned" /\ MoreRows
    /\ Started(EnsureHasNextRow(P, cr.it.st, cr.row_index + 1))
    /\ RStep

RNext ==
    \/ SkipIdentity
    \/ ProcessNextIdentity
    \/ EndOfSweep
    \/ OuterQueryStage
    \/ InputsStage
    \/ QueriesStage
    \/ NextLoopIteration
    \/ StartPass2
    \/ EndOfPass2
    \/ ZeroCheckNext
    \/ ZeroCheckEnd
    \/ NextRow

vars == <<vmvars, avars>>

Init == VmInit /\ AIdle /\ IIdle /\ FIdle

Spec == Init /\ [][VmNext]_vars

InitLong == VmInitLong /\ AIdle /\ IIdle /\ FIdle

(* run on the long machines, followed from one of the last rows of an interval *)
SpecLong == InitLong /\ [][VmNext]_vars

InitFullRun == VmInitFullRun /\ AIdle /\ IIdle /\ FIdle

(* run on the long machines from row 0: it passes through the states that
   SpecLong starts in *)
SpecFullRun == InitFullRun /\ [][VmNext]_vars

PassesLongRunStart ==
    (pc = "top" /\ row_index \in StartRows(machine - Len(Machines)))
        => LongRunAt(machine - Len(Machines), row_index)

InitA == AInit /\ VmIdle /\ IIdle /\ FIdle

SpecA == InitA /\ [][ANext]_vars

InitI == IInit /\ AIdle /\ VmIdle /\ FIdle

(* process_file runs to its end once it is called *)
SpecI == InitI /\ [][INext]_vars /\ WF_vars(INext)

InitF == FInit /\ AIdle /\ VmIdle /\ IIdle

SpecF == InitF /\ [][FNext]_vars

InitR == RInit /\ AIdle /\ VmIdle /\ IIdle

(* The processor is sequential code: while a row is being computed, or a
   further row is to be computed, it takes its next step. *)
Running ==
    /\ cr.pc \notin {"idle", "panic_unsatisfiable", "panic_underconstrained"}
    /\ cr.pc = "returned" => MoreRows

TakeStep == Running /\ steps' = steps + 1

SpecR == InitR /\ [][RNext]_vars /\ WF_steps(TakeStep)

(***************************************************************************)
(* Properties of the VM processor.                                         *)
(***************************************************************************)
IsPrimary == ~M.has_outer

(* Identity k of the machine holds on the row pair pr (strategy Zero). *)
Holds(pr, k) == ~ProcessIdentity(M, pr, M.identities[k]).err

ZeroPair(i) == RowPairNew(data[i + 1], data[i + 2], i + M.row_offset, "Zero")
ZeroSingle(i) == RowPairFromSingleRow(data[i + 1], i + M.row_offset, "Zero")
AllIdentities == 1..Len(M.identities)
WithNext == {k \in AllIdentities : ContainsNextRef(M.identities[k])}
WithoutNext == AllIdentities \ WithNext

(* C1: whenever run completes (no early latch return, no panic), data.len() +
   row_offset = degree + 1, and neither the final assertion of run nor the
   assertions of try_proposed_row and ensure_has_next_row are ever violated,
   for every interleaving of normal rows, loop detections, accepted and
   rejected proposals. *)
C1_DataLength ==
    /\ result # "assert_failed"
    /\ pc \in {"done", "generated"} => Len(data) + M.row_offset = M.degree + 1

C1_Witness ==
    /\ pc = "done"
    /\ {"detect", "accept", "reject", "compute"} \subseteq seen
    /\ last = [ev |-> "reject", row |-> M.degree]

C1_WitnessOffset ==
    pc = "done" /\ M.row_offset > 0 /\ Len(data) = M.degree

(* C2 (as claimed): when run of a primary machine completes, every polynomial
   identity evaluates to 0 on (data[r], data[r+1 mod degree]) for every row r
   in 0..degree-1. *)
CyclicPair(r) ==
    RowPairNew(data[r + 1], data[((r + 1) % M.degree) + 1], r, "Zero")

C2_IdentitiesHold ==
    (pc = "done" /\ IsPrimary /\ M.row_offset = 0) =>
        \A r \in 0..(M.degree - 1) : \A k \in AllIdentities :
            M.identities[k].kind = "Polynomial" => Holds(CyclicPair(r), k)

(* C3 (as claimed): witness generation never completes with a committed column
   whose value at row degree differs from its value at row 0. *)
C3_WrapAround ==
    pc = "generated" =>
        \A c \in M.witnesses :
            (IsKnown(data[M.degree + 1][c]) /\ IsKnown(data[1][c]))
                => data[M.degree + 1][c].v = data[1][c].v

(* C4 (as claimed): when run of a primary machine completes, every cell of
   every row 0..degree is Known. *)
C4_AllKnown ==
    (pc = "done" /\ IsPrimary) =>
        \A i \in 1..Len(data) : \A c \in M.witnesses : IsKnown(data[i][c])

(* C4 (amended): when run of a primary machine completes, cells may be left
   Unknown or RangeConstraint, and on every computed row (all rows but the
   wrap-around row) every identity without a next-row reference holds when the
   cells that are not Known are read as zero. *)
C4_UnknownAsZero ==
    (pc = "done" /\ IsPrimary) =>
        \A i \in 0..(Len(data) - 2) : \A k \in WithoutNext : Holds(ZeroSingle(i), k)

C4_Witness ==
    /\ pc = "done" /\ IsPrimary
    /\ \E i \in 1..(Len(data) - 1) : \E c \in M.witnesses : ~IsKnown(data[i][c])
    /\ WithoutNext # {}

(* C5: every row committed by try_proposed_row since looping mode was entered
   satisfies, with unknown cells read as zero, every identity without a
   next-row reference on the row alone and every identity with a next-row
   reference on (previous row, row). *)
C5_CommittedRowsHold ==
    \A r \in committed :
        /\ \A k \in WithoutNext : Holds(ZeroSingle(r), k)
        /\ \A k \in WithNext : Holds(ZeroPair(r - 1), k)

C5_Witness ==
    /\ last.ev = "accept" /\ Cardinality(committed) >= 3
    /\ looping_period = 1
    /\ WithNext # {} /\ WithoutNext # {}

(* C6: for a primary machine compute_row(r) returns normally only if every
   identity holds on (r, r+1) with unknown cells read as zero, and a failure
   of that check is the underconstrained panic; with an outer query the check
   is not made and the underconstrained panic never happens. *)
UnknownPair(i) == RowPairNew(data[i + 1], data[i + 2], i + M.row_offset, "Unknown")

IncompleteCall(i, k) ==
    /\ M.identities[k].kind # "Polynomial"
    /\ ~ProcessIdentity(M, UnknownPair(i), M.identities[k]).complete

(* identity k fails in the zero pass on (i, i+1): it does not hold with the
   unknown cells read as zero, or it is a machine call that is not complete *)
FailsZero(i, k) == ~Holds(ZeroPair(i), k) \/ IncompleteCall(i, k)

(* the row of the last compute_row: a rejected proposal for row r computes
   row r - 1 again *)
ComputedRow == IF last.ev = "reject" THEN last.row - 1 ELSE last.row

C6_ZeroCheck ==
    /\ (IsPrimary /\ last.ev \in {"compute", "reject"} /\ pc # "panic")
          => \A k \in AllIdentities : ~FailsZero(ComputedRow, k)
    /\ result = "underconstrained"
          => /\ IsPrimary /\ last.ev \in {"compute", "reject"}
             /\ \E k \in AllIdentities : FailsZero(ComputedRow, k)

C6_Witness ==
    /\ IsPrimary /\ last.ev = "compute" /\ pc = "top"
    /\ \E c \in M.witnesses : ~IsKnown(data[last.row + 1][c])
    /\ WithNext # {}

C6_WitnessSecondary ==
    /\ ~IsPrimary /\ last.ev = "compute" /\ pc # "panic"
    /\ \E k \in AllIdentities : FailsZero(last.row, k)

C6_WitnessPanic == result = "underconstrained" /\ last.row > 0

(* C7 (as claimed): on the machine whose only constraint is x*(x-1) = 0 the
   under-constraint diagnostic fires and witness generation does not complete. *)
IsScenario1 == M = Scenario1

C7_DiagnosticFires == IsScenario1 => pc \notin {"done", "generated"}

(* C7 (amended): on that machine x stays restricted to {0,1} and undetermined
   on every row, no diagnostic fires (x = 0 satisfies the constraint under
   strategy Zero) and run completes with degree + 1 rows. *)
C7_CompletesSilently ==
    IsScenario1 =>
        /\ pc # "panic"
        /\ \A i \in 1..Len(data) : data[i]["x"] = RangeConstraint(1)
        /\ pc = "done" => Len(data) = M.degree + 1

C7_Witness == IsScenario1 /\ pc = "done" /\ last = [ev |-> "compute", row |-> 3]

(* C8: with an outer query, run returns right after compute_row(r) for the
   first row r whose latch is one; no later row is computed; the result
   carries the outer assignments and is complete iff the outer query is
   complete, otherwise incomplete(BlockMachineLookupIncomplete). *)
LatchReturned == pc = "returned" /\ result \in {"complete", "BlockMachineLookupIncomplete"}

AssignedOuter(i) == AffIsConst(left[i]) /\ ~AffIsConst(M.outer_left[i])

C8_LatchReturn ==
    /\ LatchReturned =>
          /\ M.has_outer
          /\ last = [ev |-> "compute", row |-> row_index]
          /\ LatchValue(M, St, row_index) = "true"
          /\ \A r \in 0..(row_index - 1) : LatchValue(M, St, r) # "true"
          /\ Len(data) = row_index + 2
          /\ result = "complete" <=> IsComplete(left)
          /\ \A i \in DOMAIN left : AssignedOuter(i) =>
                \E j \in DOMAIN outer_assignments :
                    outer_assignments[j][1] \in DOMAIN M.outer_left[i].co
    /\ (M.has_outer /\ last.ev = "compute" /\ pc = "top")
          => LatchValue(M, St, last.row) # "true"

C8_Witness ==
    /\ LatchReturned /\ result = "BlockMachineLookupIncomplete"
    /\ Len(outer_assignments) > 0 /\ row_index > 0

C8_WitnessComplete == LatchReturned /\ result = "complete" /\ Len(outer_assignments) > 0

(* C9: with an outer query, a latch that does not evaluate to a constant after
   compute_row(r) makes run return incomplete(UnknownLatch) at that row, and
   run goes on to row r+1 only when the latch is known and not one; without an
   outer query there is no latch and run never returns early. *)
C9_UnknownLatch ==
    /\ result = "UnknownLatch" =>
          /\ pc = "returned" /\ M.has_outer
          /\ last = [ev |-> "compute", row |-> row_index]
          /\ LatchValue(M, St, row_index) = "none"
    /\ (M.has_outer /\ last.ev = "compute" /\ pc = "top")
          => LatchValue(M, St, last.row) = "false"
    /\ IsPrimary =>
          /\ pc # "returned"
          /\ \A i \in 0..(Len(data) - 1) : LatchValue(M, St, i) = "none"

C9_Witness == result = "UnknownLatch" /\ row_index > 0

(***************************************************************************)
(* Properties of the Analyzed program.                                     *)
(***************************************************************************)
RemovedNothing == op.name = "remove_polynomials" /\ op.arg = {}

(* C10: remove_polynomials with the empty set does not panic and leaves
   definitions (names and symbol IDs), intermediate_columns, identities (with
   the poly_id of every reference), public_declarations and source_order as
   they were, for every Analyzed the analyzer produces and after every
   operation applied to it. *)
C10_RemoveNothingIsIdentity ==
    RemovedNothing => (phase = "analyzed" /\ analyzed = before)

C10_Witness ==
    /\ RemovedNothing /\ phase = "analyzed"
    /\ DOMAIN analyzed.intermediate_columns # {}
    /\ IdentityPolyIDs(analyzed) # {} /\ DefinitionPolyIDs(analyzed) # {}
    /\ \E n \in DOMAIN analyzed.definitions : analyzed.definitions[n].symbol.id > 0

C10_WitnessArray ==
    /\ RemovedNothing /\ phase = "analyzed" /\ ops = 2
    /\ \E n \in DOMAIN analyzed.definitions : analyzed.definitions[n].symbol.length # None
    /\ DOMAIN analyzed.public_declarations # {}

(* The IDs of the polynomials of one kind, an array of length n counting as
   n IDs, and the names of the polynomials of that kind. *)
KindNames(a, ptype) ==
    {n \in DOMAIN a.definitions : IsPolyOfType(a.definitions[n].symbol, ptype)}

SymbolIDs(symbol) == symbol.id..(symbol.id + UnwrapOr(symbol.length, 1) - 1)

KindIDs(a, ptype) == UNION {SymbolIDs(a.definitions[n].symbol) : n \in KindNames(a, ptype)}

Contiguous(a, ptype) == KindIDs(a, ptype) = 0..(declaration_type_count(a, ptype) - 1)

RemovedNames(a, to_remove, ptype) ==
    {n \in KindNames(a, ptype) : SymbolPolyID(a.definitions[n].symbol) \in to_remove}

RemovedPolynomials == op.name = "remove_polynomials" /\ phase = "analyzed"

(* C11: after analysis and after any sequence of operations the IDs of the
   committed and of the constant polynomials are each contiguous from zero
   (arrays counted with their length); a remove_polynomials(S) lowers the
   count of a kind by the total length of the removed polynomials of that
   kind and leaves the IDs of a kind of which nothing is removed unchanged. *)
C11_ContiguousIDs ==
    phase = "analyzed" =>
        \A ptype \in {"Committed", "Constant"} :
            /\ Contiguous(analyzed, ptype)
            /\ RemovedPolynomials =>
                  /\ declaration_type_count(analyzed, ptype)
                        = declaration_type_count(before, ptype)
                            - SumLengths(before, RemovedNames(before, op.arg, ptype))
                  /\ RemovedNames(before, op.arg, ptype) = {} =>
                        \A n \in KindNames(before, ptype) :
                            /\ n \in KindNames(analyzed, ptype)
                            /\ analyzed.definitions[n].symbol.id = before.definitions[n].symbol.id

C11_Witness ==
    /\ RemovedPolynomials /\ ops = 2
    /\ \E n \in RemovedNames(before, op.arg, "Committed") :
          before.definitions[n].symbol.length = Some(3)
    /\ RemovedNames(before, op.arg, "Constant") = {}
    /\ \E n \in KindNames(analyzed, "Committed") :
          analyzed.definitions[n].symbol.id = before.definitions[n].symbol.id - 3
    /\ KindNames(analyzed, "Constant") # {}


(* The references of the identities and intermediate columns, and of the
   definition bodies, as sets of reference records. *)
SeqReferences(es) == UNION {{References(es[i])[j] : j \in 1..Len(References(es[i]))} : i \in 1..Len(es)}

AlgebraicRefs(a) ==
    UNION {SeqReferences(IdentityExpressions(a.identities[i])) : i \in 1..Len(a.identities)}
      \cup UNION {SeqReferences(<< a.intermediate_columns[n].value >>) :
                     n \in DOMAIN a.intermediate_columns}

DefinitionRefs(a) ==
    {r \in UNION {SeqReferences(ValueExpressions(a.definitions[n].value)) :
                     n \in DOMAIN a.definitions} : r.poly_id # None}

IsNamed(a, name) == name \in (DOMAIN a.definitions) \cup (DOMAIN a.intermediate_columns)

NamedPolyID(a, name) ==
    IF name \in DOMAIN a.definitions THEN SymbolPolyID(a.definitions[name].symbol)
    ELSE SymbolPolyID(a.intermediate_columns[name].symbol)

DenotesNamed(a) ==
    /\ \A r \in AlgebraicRefs(a) : IsNamed(a, r.name) /\ NamedPolyID(a, r.name) = r.poly_id
    /\ \A r \in DefinitionRefs(a) : IsNamed(a, r.name) /\ NamedPolyID(a, r.name) = r.poly_id[1]

ReferenceNames(es) == [i \in 1..Len(es) |-> [j \in 1..Len(References(es[i])) |-> References(es[i])[j].name]]

SameNames ==
    /\ Len(analyzed.identities) = Len(before.identities)
    /\ \A i \in 1..Len(before.identities) :
          ReferenceNames(IdentityExpressions(analyzed.identities[i]))
              = ReferenceNames(IdentityExpressions(before.identities[i]))
    /\ DOMAIN analyzed.intermediate_columns = DOMAIN before.intermediate_columns
    /\ \A n \in DOMAIN before.intermediate_columns :
          ReferenceNames(<< analyzed.intermediate_columns[n].value >>)
              = ReferenceNames(<< before.intermediate_columns[n].value >>)
    /\ \A n \in DOMAIN analyzed.definitions :
          ReferenceNames(ValueExpressions(analyzed.definitions[n].value))
              = ReferenceNames(ValueExpressions(before.definitions[n].value))

OrderKept ==
    \A ptype \in {"Committed", "Constant"} :
        \A n, m \in KindNames(analyzed, ptype) :
            before.definitions[n].symbol.id < before.definitions[m].symbol.id
                => analyzed.definitions[n].symbol.id < analyzed.definitions[m].symbol.id

(* C12: after remove_polynomials(S) every reference in an identity, in an
   intermediate column and in a definition body carries the ID of the
   polynomial it names, the names referred to are those of before the call,
   and the order of the retained IDs within a kind is preserved. *)
C12_ReferencesRewritten ==
    /\ phase = "analyzed" => DenotesNamed(analyzed)
    /\ RemovedPolynomials => (SameNames /\ OrderKept)

CommittedID(a, name) == a.definitions[<<"T", name>>].symbol.id

(* remove_polynomials({committed id 1}) on the four-column program *)
C12_Witness ==
    /\ RemovedPolynomials /\ Programs[program] = FourColumns /\ ops = 1
    /\ op.arg = {PolyID(1, "Committed")}
    /\ CommittedID(before, "a") = 0 /\ CommittedID(analyzed, "a") = 0
    /\ CommittedID(before, "c") = 2 /\ CommittedID(analyzed, "c") = 1
    /\ CommittedID(before, "d") = 3 /\ CommittedID(analyzed, "d") = 2
    /\ AlgebraicPolyIDs(analyzed.identities[1].left.selector[1])
          = {PolyID(0, "Committed"), PolyID(1, "Committed")}
    /\ AlgebraicPolyIDs(analyzed.identities[2].left.selector[1])
          = {PolyID(0, "Committed"), PolyID(2, "Committed")}

(* a reference inside a definition body is rewritten *)
C12_WitnessDefinition ==
    /\ RemovedPolynomials
    /\ \E r \in DefinitionRefs(analyzed) : NamedPolyID(before, r.name) # r.poly_id[1]


(* C13: remove_polynomials never removes or renumbers an intermediate column,
   and aborts when the set contains the ID of an intermediate column. *)
C13_IntermediatesKept ==
    op.name = "remove_polynomials" =>
        /\ (op.arg \cap IntermediateIDs(before) # {}) => phase = "panic"
        /\ phase = "analyzed" =>
              /\ DOMAIN analyzed.intermediate_columns = DOMAIN before.intermediate_columns
              /\ \A n \in DOMAIN before.intermediate_columns :
                    analyzed.intermediate_columns[n].symbol = before.intermediate_columns[n].symbol

C13_Witness ==
    /\ RemovedPolynomials /\ op.arg # {}
    /\ DOMAIN analyzed.intermediate_columns # {}
    /\ \E n \in DOMAIN analyzed.intermediate_columns :
          analyzed.intermediate_columns[n].value # before.intermediate_columns[n].value

(* the set holds the ID of an intermediate column that nothing refers to *)
C13_WitnessAbort ==
    /\ op.name = "remove_polynomials" /\ phase = "panic"
    /\ op.arg \subseteq IntermediateIDs(before) /\ op.arg # {}
    /\ op.arg \cap IdentityPolyIDs(before) = {}


Appended == op.name = "append_polynomial_identity"

(* C14 (as claimed): append_polynomial_identity(expr) appends, as the last
   identity, a Polynomial identity with ID max + 1 whose left selector is expr
   and whose right side is empty, and appends to source_order the entry
   Identity(i) with i the index of the appended identity. *)
C14_AppendedEntry ==
    Appended =>
        /\ analyzed.identities =
              Append(before.identities,
                     [id |-> MaxId(before.identities, 1) + 1, kind |-> "Polynomial",
                      left |-> Selected(Some(op.arg), <<>>), right |-> Selected(None, <<>>)])
        /\ analyzed.source_order =
              Append(before.source_order, <<"Identity", Len(analyzed.identities) - 1>>)


RemovedIdentities == op.name = "remove_identities" /\ phase = "analyzed"

(* the number of removed indices below index i *)
RemovedBelow(i) == Cardinality({r \in op.arg : r < i})

IsDroppedEntry(s) == s[1] = "Identity" /\ s[2] \in op.arg

RetainedEntries == SelectSeq(before.source_order, LAMBDA s : ~IsDroppedEntry(s))

KeptIndices == {i \in 0..(Len(before.identities) - 1) : i \notin op.arg}

(* C15 (as claimed): remove_identities(R) drops the identities at the indices
   in R and keeps order and IDs of the others; it drops every entry
   Identity(i) with i in R, and every retained entry that pointed to an
   identity before the call points to the same identity, at its new index,
   after the call. *)
C15_ReferencesStayCorrect ==
    RemovedIdentities =>
        /\ Len(analyzed.identities) = Cardinality(KeptIndices)
        /\ \A i \in KeptIndices :
              analyzed.identities[i - RemovedBelow(i) + 1] = before.identities[i + 1]
        /\ Len(analyzed.source_order) = Len(RetainedEntries)
        /\ \A k \in 1..Len(RetainedEntries) :
              IF RetainedEntries[k][1] # "Identity"
              THEN analyzed.source_order[k] = RetainedEntries[k]
              ELSE RetainedEntries[k][2] < Len(before.identities) =>
                     analyzed.source_order[k]
                        = <<"Identity", RetainedEntries[k][2] - RemovedBelow(RetainedEntries[k][2])>>


EntriesOf(a, kind) == {k \in 1..Len(a.source_order) : a.source_order[k][1] = kind}

AtMostOnce(a, kind) ==
    \A k, l \in EntriesOf(a, kind) : a.source_order[k][2] = a.source_order[l][2] => k = l

(* C16 (as claimed): after analysis and after any sequence of operations,
   source_order holds each definition name and each identity index at most
   once, every Definition entry names an existing definition and every
   Identity(i) entry has i < identities.len(). *)
C16_SourceOrderIntegrity ==
    phase = "analyzed" =>
        /\ AtMostOnce(analyzed, "Definition")
        /\ AtMostOnce(analyzed, "Identity")
        /\ \A k \in EntriesOf(analyzed, "Definition") :
              IsNamed(analyzed, analyzed.source_order[k][2])
        /\ \A k \in EntriesOf(analyzed, "Identity") :
              analyzed.source_order[k][2] < Len(analyzed.identities)


(* the polynomial IDs referenced by the bodies of the definitions that
   remove_polynomials(to_remove) retains *)
RetainedDefinitionPolyIDs(a, to_remove) ==
    UNION {SeqPolyIDs(ValueExpressions(a.definitions[n].value)) :
              n \in (DOMAIN a.definitions) \ NamesToRemove(a, to_remove)}

StillReferenced(a, to_remove) ==
    to_remove \cap (IdentityPolyIDs(a) \cup RetainedDefinitionPolyIDs(a, to_remove)) # {}

(* C35: remove_polynomials(S) aborts whenever an identity, the expression of
   an intermediate column or the body of a retained definition still refers
   to a polynomial of S; when it completes, no reference of an identity, an
   intermediate column or a definition body names a removed polynomial. *)
C35_NoDanglingReference ==
    op.name = "remove_polynomials" =>
        /\ StillReferenced(before, op.arg) => phase = "panic"
        /\ phase = "analyzed" =>
              /\ \A r \in AlgebraicRefs(analyzed) : r.name \notin NamesToRemove(before, op.arg)
              /\ \A r \in DefinitionRefs(analyzed) : r.name \notin NamesToRemove(before, op.arg)

(* the call aborts because of a reference of an identity alone *)
C35_Witness ==
    /\ op.name = "remove_polynomials" /\ phase = "panic"
    /\ op.arg \cap IdentityPolyIDs(before) # {}
    /\ op.arg \cap IntermediateIDs(before) = {}
    /\ op.arg \cap RetainedDefinitionPolyIDs(before, op.arg) = {}

(* the call aborts because of the body of a retained definition alone *)
C35_WitnessDefinition ==
    /\ op.name = "remove_polynomials" /\ phase = "panic"
    /\ op.arg \cap IdentityPolyIDs(before) = {}
    /\ op.arg \cap RetainedDefinitionPolyIDs(before, op.arg) # {}

(* the call completes: a removed definition referred to a removed polynomial,
   and references remain *)
C35_WitnessCompleted ==
    /\ RemovedPolynomials /\ op.arg # {}
    /\ op.arg \cap DefinitionPolyIDs(before) # {}
    /\ AlgebraicRefs(analyzed) # {}


SameKindSameID(a, i, j) ==
    a.identities[i].kind = a.identities[j].kind /\ a.identities[i].id = a.identities[j].id

UniqueIdentityIDs(a) ==
    \A i, j \in 1..Len(a.identities) : SameKindSameID(a, i, j) => i = j

(* C36: after analysis and after any sequence of operations no two identities
   of one kind have the same ID; the ID append_polynomial_identity returns is
   the ID of the appended identity and greater than the ID of every identity
   there was, of any kind; remove_identities leaves the ID of every retained
   identity as it was. *)
C36_IdentityIDsUnique ==
    /\ phase = "analyzed" => UniqueIdentityIDs(analyzed)
    /\ Appended =>
          /\ append_polynomial_identity(before, op.arg).id
                = analyzed.identities[Len(analyzed.identities)].id
          /\ \A i \in 1..Len(before.identities) :
                append_polynomial_identity(before, op.arg).id > before.identities[i].id
    /\ RemovedIdentities =>
          \A i \in KeptIndices :
              analyzed.identities[i - RemovedBelow(i) + 1].id = before.identities[i + 1].id

(* an identity is appended to identities of two kinds, after a removal *)
C36_Witness ==
    /\ Appended /\ ops = 2
    /\ \E i, j \in 1..Len(before.identities) :
          before.identities[i].kind # before.identities[j].kind
    /\ analyzed.identities[Len(analyzed.identities)].id > 1

(* identities are removed in front of a retained one, after an append *)
C36_WitnessRemoved ==
    /\ RemovedIdentities /\ ops = 2
    /\ \E i \in KeptIndices :
          /\ RemovedBelow(i) > 0
          /\ before.identities[i + 1].id = MaxId(before.identities, 1)
          /\ before.identities[i + 1].left.expressions = <<>>
          /\ before.identities[i + 1].id > 1


PublicRefersToNamed(a, n) ==
    /\ IsNamed(a, a.public_declarations[n].polynomial.name)
    /\ a.public_declarations[n].polynomial.poly_id
          = Some(NamedPolyID(a, a.public_declarations[n].polynomial.name))

(* C38 (as claimed): after remove_polynomials(S) the polynomial reference of
   every public declaration carries the renumbered ID of the polynomial of
   its name, and no public declaration refers to a removed polynomial. *)
C38_PublicsRenumbered ==
    RemovedPolynomials =>
        \A n \in DOMAIN analyzed.public_declarations : PublicRefersToNamed(analyzed, n)

(* the polynomial of a public declaration was renumbered, the declaration
   still carries the old ID *)
C38_StalePublic ==
    /\ RemovedPolynomials
    /\ \E n \in DOMAIN analyzed.public_declarations :
          /\ IsNamed(analyzed, analyzed.public_declarations[n].polynomial.name)
          /\ ~PublicRefersToNamed(analyzed, n)


Resolved == resolution.name # ""

HasPercent == resolution.name \in PercentNames
IsTopLevel == <<resolution.name>> \in DOMAIN analyzer.definitions
InGlobal == <<"Global", resolution.name>> \in DOMAIN analyzer.definitions
InCurrent == <<analyzer.namespace, resolution.name>> \in DOMAIN analyzer.definitions

(* the name the priority list gives *)
PriorityList ==
    IF HasPercent THEN << resolution.name >>
    ELSE IF IsTopLevel THEN << resolution.name >>
    ELSE IF resolution.namespace = None /\ InGlobal THEN <<"Global", resolution.name>>
    ELSE IF resolution.namespace = None THEN <<analyzer.namespace, resolution.name>>
    ELSE <<resolution.namespace[1], resolution.name>>

(* C17 (as claimed): resolve_ref returns, for every reference with or without
   a written namespace, the name given by the priority list. *)
C17_PriorityList ==
    Resolved => (~resolution.panic /\ resolution.result = PriorityList)

(* C17 (amended): rules (1) and (2) apply to a reference without a written
   namespace; with a written namespace and a name that begins with % or is a
   top-level definition the call aborts; in every other case resolve_ref
   returns the name given by the priority list. *)
C17_PriorityListOrAbort ==
    Resolved =>
        IF (HasPercent \/ IsTopLevel) /\ resolution.namespace # None
        THEN resolution.panic
        ELSE ~resolution.panic /\ resolution.result = PriorityList

(* rule (3) although current_namespace.name is defined as well *)
C17_Witness ==
    /\ Resolved /\ resolution.namespace = None /\ ~HasPercent /\ ~IsTopLevel
    /\ InGlobal /\ InCurrent /\ analyzer.namespace # "Global"
    /\ resolution.result = <<"Global", resolution.name>>

C17_WitnessAbort == Resolved /\ HasPercent /\ resolution.namespace # None /\ resolution.panic

C17_WitnessWritten ==
    /\ Resolved /\ resolution.namespace = Some("Global") /\ analyzer.namespace = "T"
    /\ resolution.result = <<"Global", resolution.name>> /\ InCurrent


(* the Namespace statements handled so far, and their degrees *)
NamespaceStatements ==
    SelectSeq(SubSeq(Programs[program], 1, statement - 1), LAMBDA s : s.stmt = "Namespace")

DegreeOf(s) == EvaluateDegree(analyzer, s.degree)

DegreesDiffer ==
    \E i \in 1..Len(NamespaceStatements) :
        DegreeOf(NamespaceStatements[i]) # DegreeOf(NamespaceStatements[1])

(* C18: while analysis has not aborted, the polynomial degree is the degree of
   the first Namespace statement (none before it), the current namespace is
   the name of the last Namespace statement ("Global" before the first), and a
   Namespace statement with another degree aborts analysis. *)
C18_NamespaceDegree ==
    /\ analyzer.error = "none" =>
          /\ analyzer.namespace =
                IF NamespaceStatements = <<>> THEN "Global"
                ELSE NamespaceStatements[Len(NamespaceStatements)].name
          /\ analyzer.polynomial_degree =
                IF NamespaceStatements = <<>> THEN None ELSE DegreeOf(NamespaceStatements[1])
          /\ ~DegreesDiffer
    /\ DegreesDiffer =>
          (phase = "panic" /\ analyzer.error = "all namespaces must have the same degree")

C18_Witness ==
    /\ analyzer.error = "none" /\ Len(NamespaceStatements) = 2
    /\ NamespaceStatements[1].name # NamespaceStatements[2].name
    /\ analyzer.namespace = NamespaceStatements[2].name
    /\ analyzer.polynomial_degree = Some(8)

C18_WitnessAbort ==
    /\ DegreesDiffer /\ phase = "panic"
    /\ analyzer.polynomial_degree = Some(4) /\ analyzer.namespace = "T"


(* the statements handled so far that define a symbol *)
DefinitionStatements ==
    SelectSeq(SubSeq(Programs[program], 1, statement - 1),
              LAMBDA s : s.stmt \in {"ConstantDefinition", "PolynomialCommitDeclaration",
                                     "PolynomialConstantDefinition", "PolynomialDefinition"})

EntriesNaming(source_order, n) ==
    {k \in 1..Len(source_order) : source_order[k] = <<"Definition", n>>}

AlreadyDefined == analyzer.error = "already defined"

(* C20: a definition whose absolute name is already defined aborts analysis;
   no definition replaces another, and in the analyzer and in every Analyzed
   each absolute name has one definition and one Definition entry in
   source_order. *)
C20_DefinedOnce ==
    /\ analyzer.error = "none" =>
          /\ Cardinality(DOMAIN analyzer.definitions) = Len(DefinitionStatements)
          /\ \A n \in DOMAIN analyzer.definitions :
                Cardinality(EntriesNaming(analyzer.source_order, n)) = 1
    /\ AlreadyDefined =>
          /\ phase = "panic"
          /\ Cardinality(DOMAIN analyzer.definitions) = Len(DefinitionStatements) - 1
          /\ resolve_decl(analyzer, DefinitionStatements[Len(DefinitionStatements)].name)
                \in DOMAIN analyzer.definitions
    /\ phase = "analyzed" =>
          /\ (DOMAIN analyzed.definitions) \cap (DOMAIN analyzed.intermediate_columns) = {}
          /\ \A n \in (DOMAIN analyzed.definitions) \cup (DOMAIN analyzed.intermediate_columns) :
                Cardinality(EntriesNaming(analyzed.source_order, n)) = 1

C20_Witness ==
    /\ AlreadyDefined /\ Programs[program] = DefinedTwice
    /\ DOMAIN analyzer.definitions = {<<"T", "a">>}

C20_WitnessAnalyzed ==
    /\ phase = "analyzed" /\ ops = 0
    /\ Cardinality(DOMAIN analyzed.definitions) >= 4
    /\ DOMAIN analyzed.intermediate_columns # {}


(***************************************************************************)
(* Properties of include processing.                                       *)
(***************************************************************************)
(* the positions of file f handed to the statement processor so far *)
PositionsFolded(f) == {folded[k][2] : k \in {l \in 1..Len(folded) : folded[l][1] = f}}

(* the statements of file f before position n that are not includes *)
OwnStatements(f, n) == {i \in 1..n : FS.files[f][i].stmt # "Include"}

(* the files the includes of file f name, resolved from the directory of f *)
IncludeTargets(f) ==
    {Canonicalize(FS, IncludePath(f, FS.files[f][i].path)) :
        i \in {j \in 1..Len(FS.files[f]) : FS.files[f][j].stmt = "Include"}} \ {NotFound}

RECURSIVE IncludeClosure(_)
IncludeClosure(S) ==
    IF UNION {IncludeTargets(f) : f \in S} \subseteq S THEN S
    ELSE IncludeClosure(S \cup UNION {IncludeTargets(f) : f \in S})

FramesOf(f) == {i \in 1..Len(stack) : stack[i].file = f}

FoldedOnce ==
    /\ \A k, l \in 1..Len(folded) : folded[k] = folded[l] => k = l
    /\ \A k, l \in 1..Len(folded) :
          (k < l /\ folded[k][1] = folded[l][1]) => folded[k][2] < folded[l][2]

FoldedAtFirstInclude ==
    \A f \in DOMAIN FS.files :
        /\ Cardinality(FramesOf(f)) <= 1
        /\ PositionsFolded(f) =
              IF f \notin included_files THEN {}
              ELSE IF FramesOf(f) = {} THEN OwnStatements(f, Len(FS.files[f]))
              ELSE OwnStatements(f, stack[CHOOSE i \in FramesOf(f) : TRUE].pos - 1)

IncludeInvariant ==
    (ipc \in {"running", "done", "panic"} /\ root # NotFound) =>
        /\ FoldedOnce
        /\ FoldedAtFirstInclude
        /\ stack # <<>> => current_file = Top.file
        /\ included_files \subseteq IncludeClosure({root})
        /\ ipc = "done" =>
              /\ stack = <<>>
              /\ included_files = IncludeClosure({root})

Terminated == ipc \in {"done", "panic"}

(* C19: for every include graph process_file terminates, the statements of
   each canonical path are folded into the analyzer exactly once, when the
   path is included first, and every include is resolved relative to the
   directory of the file that contains it, also after an earlier nested
   include of the same file. *)
C19_IncludesOnce == []IncludeInvariant /\ <>Terminated

(* main.pil of the tree: cycle, diamond and includes from several directories *)
C19_Witness ==
    /\ ipc = "done" /\ FS = Tree /\ root = << "main.pil" >>
    /\ included_files = (DOMAIN Tree.files) \ {<< "lib", "e.pil" >>}
    /\ Len(folded) = 9
    /\ << "T", "e2" >> \in DOMAIN analyzer.definitions
    /\ << "T", "a2" >> \in DOMAIN analyzer.definitions

(* a file reached through a link and by its path; a file that does not exist *)
C19_WitnessLink ==
    /\ ipc = "panic" /\ FS = Linked /\ root = << "top.pil" >>
    /\ included_files = {<< "top.pil" >>, << "real", "r.pil" >>, << "real", "s.pil" >>}
    /\ Len(folded) = 4


(***************************************************************************)
(* Properties of the steps of the VM processor.                            *)
(***************************************************************************)
(* The smallest period in 1..MAX_PERIOD of the rows before row r, 0 if none. *)
SmallestPeriod(st, r) ==
    IF r < MAX_PERIOD THEN 0
    ELSE SmallestOf({period \in 1..MAX_PERIOD : PeriodMatches(st, r, period)})

LoopDetectionCalled == pc = "top" /\ row_index < RowsLeft /\ LoopDetectionDue

(* C26 (as claimed): rows_are_repeating(r) checks the periods 1, ..., MAX_PERIOD
   and returns the smallest period p of them with row[r-i-p] = row[r-i] for
   all i in 1..p, and None when there is none. *)
C26_SmallestPeriod ==
    LoopDetectionCalled => RowsAreRepeating(St, row_index) = SmallestPeriod(St, row_index)

Looping == looping_period # 0

(* the step is a call of try_proposed_row that returns false *)
ProposalRejected ==
    /\ pc = "propose" /\ Looping
    /\ ~TryProposedRow(M, St, row_index, ProposedRow).valid

(* the step is a call of try_proposed_row that returns true *)
ProposalAccepted ==
    /\ pc = "propose" /\ Looping
    /\ TryProposedRow(M, St, row_index, ProposedRow).valid

EntersLooping == ~Looping /\ looping_period' # 0

LeavesLooping == Looping /\ looping_period' = 0

JustRejected == pc = "normal" /\ last = [ev |-> "reject", row |-> row_index]

LoopingStep ==
    /\ EntersLooping =>
          /\ pc = "top" /\ row_index > 0 /\ row_index % LoopCheckInterval = 0
          /\ looping_period' \in 1..MAX_PERIOD
    /\ Looping => looping_period' \in {looping_period, 0}
    /\ ProposalAccepted =>
          /\ last' = [ev |-> "accept", row |-> row_index]
          /\ data'[row_index + 1] = data[row_index - looping_period + 1]
    /\ LeavesLooping <=> ProposalRejected
    /\ ProposalRejected => (last' = [ev |-> "reject", row |-> row_index] /\ log_level' = "Debug")
    /\ JustRejected =>
          IF row_index # RowsLeft - 1
          THEN last' = [ev |-> "compute", row |-> row_index] /\ UNCHANGED looping_period
          ELSE row_index' = row_index + 1 /\ UNCHANGED <<data, last>>
    /\ log_level = "Debug" => log_level' = "Debug"

LoopingState ==
    /\ JustRejected => ~Looping
    /\ log_level = (IF "reject" \in seen THEN "Debug" ELSE "Info")

(* C25: looping mode is entered only at a row index that is a positive
   multiple of 100 and only while not looping; while looping, row r is
   proposed as a copy of row r - p; looping mode is left exactly when
   try_proposed_row returns false, and in that iteration row r is then
   computed in normal mode unless it is the last row; from the first
   rejection on the loop-detection log level is Debug. *)
C25_LoopingProtocol == [][LoopingStep]_vars /\ []LoopingState

C25_Witness ==
    /\ last = [ev |-> "compute", row |-> LoopCheckInterval + 1]
    /\ {"detect", "accept", "reject"} \subseteq seen
    /\ log_level = "Debug" /\ ~Looping /\ pc = "top"

C25_WitnessLastRow ==
    /\ last = [ev |-> "reject", row |-> RowsLeft - 1]
    /\ pc = "top" /\ row_index = RowsLeft

(* The two checks of try_proposed_row on the row proposed for row_index. *)
ProposedAlone == RowPairFromSingleRow(ProposedRow, row_index + M.row_offset, "Zero")

ProposedAfterPrevious ==
    RowPairNew(data[row_index], ProposedRow, row_index + M.row_offset - 1, "Zero")

BothChecksSucceed ==
    /\ \A k \in WithoutNext : Holds(ProposedAlone, k)
    /\ \A k \in WithNext : Holds(ProposedAfterPrevious, k)

(* the row r that a rejected proposal starts from: the row added before, or
   a fresh row *)
RowBeforeRerun == IF row_index = Len(data) - 1 THEN data[row_index + 1] ELSE FreshRow(M)

Refines(new, old) == \A c \in DOMAIN old : IsKnown(old[c]) => new[c] = old[c]

ProposalStep ==
    (pc = "propose" /\ Looping) =>
        IF BothChecksSucceed
        THEN /\ last' = [ev |-> "accept", row |-> row_index]
             /\ data' = SubSeq(data, 1, row_index) \o << ProposedRow >>
        ELSE /\ last' = [ev |-> "reject", row |-> row_index]
             /\ Len(data') = row_index + 1
             /\ Refines(data'[row_index + 1], RowBeforeRerun)
             /\ data' = ComputeRow(M, EnsureHasNextRow(M, St, row_index - 1), row_index - 1).st.data
             /\ \A k \in WithNext :
                    Holds(RowPairNew(data'[row_index], data'[row_index + 1],
                                     row_index + M.row_offset - 1, "Zero"), k)

(* C27: try_proposed_row(r, row) returns true iff both checks succeed; then
   data[r] is the proposed row (overwriting a row added before when
   r = len - 1, pushed when r = len), the rows 0..r-1 are unchanged and there
   is no row r+1; otherwise the proposed row is not stored, row r exists and
   is the row left by re-running compute_row(r-1), so that the identities
   with a next-row reference hold on (r-1, r). *)
C27_ProposedRowFrame == [][ProposalStep]_vars

C27_Witness ==
    /\ last = [ev |-> "reject", row |-> LoopCheckInterval + 1] /\ pc = "normal"
    /\ Len(data) = row_index + 1
    /\ committed = {}
    /\ \E c \in M.witnesses : IsKnown(data[row_index + 1][c]) /\ ~IsKnown(FreshRow(M)[c])
    /\ WithNext # {} /\ WithoutNext # {}

C27_WitnessOverwrite ==
    /\ last = [ev |-> "accept", row |-> LoopCheckInterval] /\ Len(data) = LoopCheckInterval + 1

C27_WitnessPush ==
    /\ last = [ev |-> "accept", row |-> LoopCheckInterval + 1]
    /\ Len(data) = LoopCheckInterval + 2

(* What is known about a cell: Unknown, then RangeConstraint, then Known. *)
Rank(cell) == CASE cell.k = "Unknown" -> 0 [] cell.k = "RangeConstraint" -> 1 [] OTHER -> 2

(* the input rollback of set_inputs_if_unset: the cell of an input polynomial
   is reset to Unknown *)
IsInputRollback(c, new) == c \in DOMAIN Inputs(M) /\ new = Unknown

CellMonotonic(c, old, new) ==
    \/ IsInputRollback(c, new)
    \/ /\ Rank(old) <= Rank(new)
       /\ IsKnown(old) => new = old

MonotonicStep ==
    \A i \in 1..Len(data) : \A c \in M.witnesses :
        i <= Len(data') => CellMonotonic(c, data[i][c], data'[i][c])

(* C31 (as claimed): over the whole run a cell only moves Unknown ->
   RangeConstraint -> Known, and a Known cell of a row keeps its value and
   does not become unknown again, whatever step of run changes the rows
   (apply_updates, query results, outer-query processing, the commit of a
   proposed row), except for the input rollback of set_inputs_if_unset. *)
C31_MonotonicCells == [][MonotonicStep]_vars

(* a proposed row has replaced a row that held a Known cell *)
C31_KnownCellLost ==
    /\ last = [ev |-> "accept", row |-> LoopCheckInterval]
    /\ data[LoopCheckInterval + 1]["a"] = Unknown
    /\ M = KnownAtLoopStart

(***************************************************************************)
(* Properties of the steps of compute_row.                                 *)
(***************************************************************************)
HasNextRef(k) == ContainsNextRef(P.identities[k])

Increasing(s) == \A i, j \in 1..Len(s) : i < j => s[i] < s[j]

Elements(s) == {s[i] : i \in 1..Len(s)}

(* the loop of pass 1 would make no progress on the state it has left *)
Pass1AtFixedPoint ==
    ~LoopIteration(P, IterStart(cr.it.st, cr.it.done, <<>>), cr.row_index,
                   IdentitiesWithoutNextRef(P)).progress

IdentityProcessed == cr.pc = "identities" /\ crlog'.processed # crlog.processed

JustProcessed == crlog'.processed[Len(crlog'.processed)]

EndsSweep == cr.pc = "identities" /\ cr'.pc # "identities"

EndsPass1 == ~crlog.pass1_ended /\ crlog'.pass1_ended

Pass1Error == cr.pc # "idle" /\ ~crlog.pass1_ended /\ cr.it.err

PassOrderStep ==
    /\ EndsPass1 => ~cr.it.err /\ Pass1AtFixedPoint
    /\ IdentityProcessed =>
          /\ JustProcessed \notin crlog.completed
          /\ HasNextRef(JustProcessed) <=> crlog.pass1_ended
    /\ EndsSweep =>
          \A i \in 1..Len(P.identities) :
             (HasNextRef(i) <=> crlog.pass1_ended) =>
                i \in Elements(crlog.sweep) \/ i \in crlog.completed
    /\ Pass1Error => ~crlog'.pass1_ended /\ crlog'.processed = crlog.processed

PassOrderState ==
    cr.pc # "idle" =>
       /\ Increasing(crlog.sweep)
       /\ \A i, j \in 1..Len(crlog.processed) :
             i < j /\ HasNextRef(crlog.processed[i]) => HasNextRef(crlog.processed[j])
       /\ ~crlog.pass1_ended => \A k \in Elements(crlog.processed) : ~HasNextRef(k)

(* C28: compute_row iterates the identities without a reference to the next
   row to a fixed point first and only then those with such a reference; no
   identity with a next-row reference is processed before pass 1 has reached
   its fixed point, and an error in pass 1 panics as unsatisfiable before
   pass 2 starts.  Within a pass the identities are processed in declaration
   order, and an identity marked complete is not processed again. *)
C28_TwoPasses ==
    /\ [][PassOrderStep]_vars
    /\ []PassOrderState
    /\ (Pass1Error ~> cr.pc = "panic_unsatisfiable")

(* a row where both passes have processed identities, pass 1 in two sweeps *)
C28_Witness ==
    /\ cr.pc = "returned" /\ crlog.pass1_ended
    /\ \E i, j \in Elements(crlog.processed) : i < j /\ HasNextRef(i) /\ ~HasNextRef(j)
    /\ \E k \in crlog.completed : ~HasNextRef(k)

(* a sweep that has passed over a complete identity *)
C28_WitnessSkipped ==
    /\ cr.pc = "identities" /\ cr.pos > 1
    /\ CurrentIdentities[cr.pos - 1] \in crlog.completed
    /\ CurrentIdentities[cr.pos - 1] \notin Elements(crlog.sweep)

(* an error in pass 1: the panic, and no identity of pass 2 processed *)
C28_WitnessPanic ==
    /\ cr.pc = "panic_unsatisfiable" /\ ~crlog.pass1_ended
    /\ IdentitiesWithNextRef(P) # <<>>

RowEnded == cr.pc \in {"returned", "panic_unsatisfiable", "panic_underconstrained"}

EndStatus ==
    IF cr.pc = "returned" THEN "ok"
    ELSE IF cr.pc = "panic_unsatisfiable" THEN "unsatisfiable" ELSE "underconstrained"

(* the steps of compute_row end as the operator ComputeRow says *)
StepsAgree ==
    RowEnded =>
       /\ ComputeRow(P, crlog.start, cr.row_index).st = cr.it.st
       /\ ComputeRow(P, crlog.start, cr.row_index).status = EndStatus
       /\ cr.pc = "returned" =>
             ComputeRow(P, crlog.start, cr.row_index).oa = cr.oa1 \o cr.it.oa

InLoop == cr.pc \in {"identities", "outer_query", "inputs", "queries", "loop_end"}

LoopLeft == cr.pc \in {"zero_check", "returned", "panic_unsatisfiable"}

RepeatsLoop == cr.pc = "loop_end" /\ cr'.pc = "identities" /\ cr'.pass = cr.pass

(* an iteration that reports progress has refined a cell or assigned a
   variable of the outer query, and no step of the loop undoes that *)
LoopStep ==
    /\ RepeatsLoop => Measure(cr.it.st, cr.row_index) < crlog.measure
    /\ InLoop /\ cr'.row_index = cr.row_index =>
          Measure(cr'.it.st, cr.row_index) <= Measure(cr.it.st, cr.row_index)

(* C30: loop_until_no_progress terminates for every row: every iteration
   that makes progress strictly refines the row pair, so after finitely many
   iterations one makes no progress and the loop exits. *)
C30_LoopTerminates ==
    /\ [][LoopStep]_vars
    /\ (InLoop /\ ~crlog.pass1_ended) ~> (crlog.pass1_ended \/ cr.pc = "panic_unsatisfiable")
    /\ (InLoop /\ crlog.pass1_ended) ~> LoopLeft

(* a loop that has exited after three iterations, two of them with progress *)
C30_Witness ==
    /\ cr.pc = "loop_end" /\ ~cr.it.progress /\ crlog.iterations = 2
    /\ Measure(cr.it.st, cr.row_index) < Measure(crlog.start, cr.row_index)

(* progress made by the outer query and by a query answer *)
C30_WitnessOuterQuery ==
    /\ cr.pc = "inputs" /\ cr.it.progress
    /\ LeftWeight(cr.it.st.left) < LeftWeight(crlog.start.left)

(***************************************************************************)
(* Properties of single function calls.                                    *)
(***************************************************************************)
(* The references an algebraic expression is built from. *)
RECURSIVE ReferenceLeaves(_)
ReferenceLeaves(e) ==
    IF e[1] \in {"w", "f"} THEN {e}
    ELSE IF e[1] \in {"add", "sub", "mul"} THEN ReferenceLeaves(e[2]) \cup ReferenceLeaves(e[3])
    ELSE {}

HasNextReference(e) == \E r \in ReferenceLeaves(e) : r[3] = 1

SideExpressions(sel) == {sel.selector} \cup {sel.expressions[i] : i \in DOMAIN sel.expressions}

IdentityHasNextReference(id) ==
    \E e \in SideExpressions(id.left) \cup SideExpressions(id.right) : HasNextReference(e)

Occurrences(seq, x) == Cardinality({j \in DOMAIN seq : seq[j] = x})

(* C22: contains_next_ref(e) is true iff e has a reference with next = true;
   an identity's contains_next_ref is true iff a selector or an expression of
   its left or right side has one; VmProcessor::new puts every identity into
   exactly one of identities_with_next_ref and identities_without_next_ref,
   the first iff the identity has a next reference. *)
C22_ContainsNextRef ==
    /\ call.fn = "expr_contains_next_ref" => (ret <=> HasNextReference(call.args))
    /\ call.fn = "contains_next_ref" => (ret <=> IdentityHasNextReference(call.args))
    /\ call.fn = "new" =>
          \A i \in DOMAIN call.args :
              /\ Occurrences(ret.identities_with_next_ref, i)
                    = (IF IdentityHasNextReference(call.args[i]) THEN 1 ELSE 0)
              /\ Occurrences(ret.identities_without_next_ref, i)
                    = (IF IdentityHasNextReference(call.args[i]) THEN 0 ELSE 1)

C22_Witness ==
    /\ call.fn = "contains_next_ref" /\ ret = TRUE
    /\ call.args.kind = "Plookup"
    /\ ~HasNextReference(call.args.left.selector)
    /\ \A i \in DOMAIN call.args.left.expressions : ~HasNextReference(call.args.left.expressions[i])
    /\ ~HasNextReference(call.args.right.selector)
    /\ call.args.right.expressions = <<Num(1), FN("f")>>

C22_WitnessExpression ==
    /\ call.fn = "expr_contains_next_ref" /\ ret = TRUE
    /\ call.args = Sub(Num(1), Mul(W("a"), FN("f")))

C22_WitnessNew ==
    /\ call.fn = "new" /\ Len(call.args) = MaxIdentities
    /\ Len(ret.identities_with_next_ref) = 2 /\ Len(ret.identities_without_next_ref) = 1
    /\ call.args[1] = call.args[3]

(* The order of two references by (poly_id, next). *)
OrderByKey(a, b) ==
    IF PolyIDCmp(a.poly_id, b.poly_id) # "Equal" THEN PolyIDCmp(a.poly_id, b.poly_id)
    ELSE Ordering(BoolOrder(a.next), BoolOrder(b.next))

SameKey(a, b) == a.poly_id = b.poly_id /\ a.next = b.next

NoIndex(a) == a.index = None

(* C23 (as claimed): for any two references, with or without an array index,
   cmp and eq return a result that depends only on (poly_id, next): cmp is the
   order of the pairs (poly_id, next), eq holds iff that order is Equal, and
   references that are equal have equal hashes. *)
C23_TotalOrder ==
    /\ call.fn = "cmp" => ret = Returned(OrderByKey(call.args[1], call.args[2]))
    /\ call.fn = "eq" => ret = Returned(SameKey(call.args[1], call.args[2]))
    /\ call.fn = "hash" => (SameKey(call.args[1], call.args[2]) => ret[1] = ret[2])

(* C23 (amended): for two references without an array index cmp is the order
   of the pairs (poly_id, next), whatever the names, eq holds iff that order is
   Equal, and equal references have equal hashes; when one of the two has an
   array index, eq aborts on its assertion, and cmp aborts when the poly_ids
   are equal and returns the order of the poly_ids otherwise. *)
C23_TotalOrderOrAbort ==
    /\ call.fn = "cmp" =>
          ret = IF (NoIndex(call.args[1]) /\ NoIndex(call.args[2]))
                      \/ call.args[1].poly_id # call.args[2].poly_id
                THEN Returned(OrderByKey(call.args[1], call.args[2]))
                ELSE Aborted
    /\ call.fn = "eq" =>
          ret = IF NoIndex(call.args[1]) /\ NoIndex(call.args[2])
                THEN Returned(SameKey(call.args[1], call.args[2]))
                ELSE Aborted
    /\ call.fn = "hash" =>
          ((NoIndex(call.args[1]) /\ NoIndex(call.args[2]) /\ SameKey(call.args[1], call.args[2]))
              => ret[1] = ret[2])

C23_Witness ==
    /\ call.fn = "cmp" /\ ret = Returned("Less")
    /\ NoIndex(call.args[1]) /\ NoIndex(call.args[2])
    /\ call.args[1].poly_id = call.args[2].poly_id
    /\ call.args[1].name = "T.b" /\ call.args[2].name = "T.a"

C23_WitnessEqual ==
    /\ call.fn = "eq" /\ ret = Returned(TRUE)
    /\ call.args[1].name # call.args[2].name

C23_WitnessAbort ==
    /\ call.fn = "eq" /\ ret = Aborted
    /\ call.args[1].poly_id # call.args[2].poly_id

C23_WitnessHash ==
    /\ call.fn = "hash" /\ ret[1] = ret[2]
    /\ call.args[1].name # call.args[2].name

(* The query is ("input", i): the quoted word, a comma and the number i,
   with blanks around the items. *)
Printed == call.fn = "to_string" /\ ~ret.first.panic

(* C21: printing is a round trip: for every legal input file F, parsing and
   analyzing print(analyze(F)) yields an Analyzed structurally equal to
   analyze(F); printing the analysis of a file already in printed form
   reproduces the text of that file, statement by statement in
   source_order. *)
C21_RoundTrip ==
    Printed =>
       /\ ret.second = ret.first
       /\ call.args[1] \in PrintedFiles => ret.text = call.args[1]

(* C21 as the code has it: the two Analyzed are equal up to the source
   references of their symbols, public declarations and identities, which
   are the lines of the text that was parsed; for a file in printed form
   they are equal altogether *)
C21_RoundTripUpToSource ==
    Printed =>
       /\ ~ret.second.panic
       /\ ret.second.analyzed = ret.first.analyzed
       /\ Len(ret.second.source) = Len(ret.first.analyzed.source_order)
       /\ call.args[1] \in PrintedFiles =>
             ret.text = call.args[1] /\ ret.second = ret.first

(* a file with two namespaces, unqualified and qualified names, that is
   not in printed form *)
C21_Witness ==
    /\ Printed /\ call.args[1] = WithGlobal
    /\ ret.text # call.args[1]
    /\ ret.second.analyzed = ret.first.analyzed
    /\ Len(ret.first.analyzed.identities) = 2

(* a file in printed form *)
C21_WitnessPrinted ==
    /\ Printed /\ call.args[1] \in PrintedFiles
    /\ ret.text = call.args[1]
    /\ DOMAIN ret.first.analyzed.intermediate_columns # {}

(* the source references differ after an empty line *)
C21_WitnessSource ==
    /\ Printed /\ call.args[1] = << <<>> >> \o WithArrays
    /\ ret.second.analyzed = ret.first.analyzed
    /\ ret.second.source # ret.first.source

(* C29: apply_updates returns true iff at least one cell of the row pair or
   of the left side of the outer query was changed: false for an empty
   update, and false for a non-empty update that leaves every cell as it
   was. *)
C29_TrueIffChanged ==
    call.fn = "apply_updates" => (ret.flag <=> ret.st # call.args[1])

(* the part of C29 the code keeps: the flag tells whether the update is empty *)
C29_TrueIffNonEmpty ==
    call.fn = "apply_updates" => (ret.flag <=> call.args[2] # <<>>)

(* an assignment to a polynomial of the caller that the left side does not
   contain: nothing changes and the call returns true *)
C29_NothingChanged ==
    /\ call.fn = "apply_updates"
    /\ call.args[1] = BlockStart /\ call.args[2] = << <<OuterX, 5>> >>
    /\ ret.st = BlockStart /\ ret.flag

IsInputQueryFor(query, i) ==
    /\ Len(Items(query)) = 2
    /\ Items(query)[1] = << QuotedInput >>
    /\ ParseUsize(Items(query)[2]) = Some(i)

(* C24 (as claimed): the default query callback returns input i for a query
   ("input", i) with i inside the inputs and returns None, without failing,
   for every other query string: an index outside the inputs, a first item
   other than "input", a string that is not two comma-separated items. *)
C24_DefaultCallback ==
    call.fn = "query_callback" =>
        ret = IF \E i \in 0..(Len(call.args[1]) - 1) : IsInputQueryFor(call.args[2], i)
              THEN Returned(Some(call.args[1]
                       [(CHOOSE i \in 0..(Len(call.args[1]) - 1) :
                            IsInputQueryFor(call.args[2], i)) + 1]))
              ELSE Returned(None)


(* The call set_inputs_if_unset(r) of the fixed-point loop: the state before
   and after it. *)
InputsCalled == cr.pc = "inputs"

IsAssignedInput(c) ==
    c \in DOMAIN Inputs(P) /\ ~IsKnown(RowOf(cr.it.st, cr.row_index)[c])

WasSetSince(c, r) == c \in DOMAIN cr.it.st.psi /\ cr.it.st.psi[c] <= r

ExpectedCell(c, r) ==
    IF r = cr.row_index /\ IsAssignedInput(c) THEN Known(Inputs(P)[c])
    ELSE IF r < cr.row_index /\ IsAssignedInput(c) /\ WasSetSince(c, r) THEN Unknown
    ELSE RowOf(cr.it.st, r)[c]

SetInputsStep ==
    InputsCalled =>
        /\ Len(cr'.it.st.data) = Len(cr.it.st.data)
        /\ \A r \in 0..(Len(cr.it.st.data) - 1) : \A c \in P.witnesses :
              RowOf(cr'.it.st, r)[c] = ExpectedCell(c, r)
        /\ DOMAIN cr'.it.st.psi = (DOMAIN cr.it.st.psi) \cup {c \in P.witnesses : IsAssignedInput(c)}
        /\ \A c \in DOMAIN cr'.it.st.psi :
              cr'.it.st.psi[c] = IF IsAssignedInput(c) THEN cr.row_index ELSE cr.it.st.psi[c]

(* C32: set_inputs_if_unset(r) assigns an input polynomial only when its cell
   at row r is Unknown or a RangeConstraint, and leaves a Known cell of row r
   as it is; when it assigns p at row r and p was assigned by it before from
   row s < r on, the cells of p in the rows s..r-1 become Unknown, the cell of
   p at row r becomes Known with the input value, every other cell is
   untouched, and previously_set_inputs[p] becomes r. *)
C32_InputRollback == [][SetInputsStep]_vars

(* an input is assigned at row 2 after it was assigned at row 0: two rows are
   rolled back *)
C32_Witness ==
    /\ cr.pc = "queries" /\ cr.row_index = 2 /\ P = InputReset
    /\ cr.it.st.psi["x"] = 2
    /\ RowOf(cr.it.st, 0)["x"] = Unknown /\ RowOf(cr.it.st, 1)["x"] = Unknown
    /\ RowOf(cr.it.st, 2)["x"] = Known(3)
    /\ IsKnown(RowOf(cr.it.st, 0)["ret"])

(* the call finds the input Known and assigns nothing *)
C32_WitnessKnown ==
    /\ cr.pc = "queries" /\ cr.row_index = 1 /\ P = InputReset
    /\ cr.it.st.psi["x"] = 0
    /\ RowOf(cr.it.st, 0)["x"] = Known(3) /\ RowOf(cr.it.st, 1)["x"] = Known(3)


(* The outer-query stage of the fixed-point loop: the latch of the current
   row and the constraints process_link gives on the current row pair. *)
LatchNow == LatchValue(P, cr.it.st, cr.row_index)

LinkUpdates ==
    ProcessLink(P, cr.it.st.left,
        RowPairNew(RowOf(cr.it.st, cr.row_index), RowOf(cr.it.st, cr.row_index + 1),
                   (cr.row_index + P.row_offset) % P.degree, "Unknown"))

WitnessUpdates == SelectSeq(LinkUpdates.constraints, LAMBDA c : IsWitnessVar(P, c[1]))

OuterUpdates == SelectSeq(LinkUpdates.constraints, LAMBDA c : ~IsWitnessVar(P, c[1]))

IsUpdatedCell(r, col) ==
    \E i \in 1..Len(WitnessUpdates) :
        WitnessUpdates[i][1] = <<col, r - cr.row_index>>

AllOutside(oa) == \A i \in 1..Len(oa) : ~IsWitnessVar(P, oa[i][1])

OuterQueryStep ==
    cr.pc = "outer_query" =>
        IF LatchNow # "true" THEN cr'.it = cr.it
        ELSE ~LinkUpdates.err =>
                /\ cr'.it.oa = cr.it.oa \o OuterUpdates
                /\ \A i \in 1..Len(WitnessUpdates) :
                      RowOf(cr'.it.st, cr.row_index + WitnessUpdates[i][1][2])[WitnessUpdates[i][1][1]]
                          = Known(WitnessUpdates[i][2])
                /\ \A r \in 0..(Len(cr.it.st.data) - 1) : \A col \in P.witnesses :
                      ~IsUpdatedCell(r, col) =>
                          RowOf(cr'.it.st, r)[col] = RowOf(cr.it.st, r)[col]

(* C34: process_outer_query runs only in an iteration of the fixed-point loop
   in which the latch of the current row is one; the constraints of the link
   on witness polynomials are applied to the row pair and not reported, those
   on other polynomials are reported as outer assignments and change no row;
   every outer assignment accumulated by compute_row and by run is on a
   polynomial outside the witness set. *)
C34_OuterAssignments ==
    /\ [][OuterQueryStep]_vars
    /\ [](AllOutside(cr.it.oa) /\ AllOutside(cr.oa1))

(* the link gives a constraint on a witness polynomial, which is applied *)
C34_Witness ==
    /\ cr.pc = "inputs" /\ P = BlockAtOnce /\ cr.row_index = 0
    /\ RowOf(cr.it.st, 0)["x"] = Known(3)
    /\ "x" \notin DOMAIN cr.it.st.psi
    /\ cr.it.oa = <<>>

(* the link gives an outer assignment *)
C34_WitnessReported ==
    /\ cr.pc = "inputs" /\ P = BlockAtOnce /\ cr.row_index = 0
    /\ cr.it.oa = << <<OuterY, 4>> >>

(* the latch is known and not one: the outer query is left alone *)
C34_WitnessNotCalled ==
    /\ cr.pc = "inputs" /\ P = Block /\ cr.row_index = 1
    /\ LatchNow = "false" /\ cr.it.oa = <<>>


(* The pairs of the two checks of try_proposed_row, with the unknown cells
   kept symbolic: a machine call is open on them when it is not complete. *)
OpenCall(pr, k) ==
    M.identities[k].kind # "Polynomial" /\ ~ProcessIdentity(M, pr, M.identities[k]).complete

ProposedHasOpenCall ==
    \/ \E k \in WithoutNext :
          OpenCall(RowPairFromSingleRow(ProposedRow, row_index + M.row_offset, "Unknown"), k)
    \/ \E k \in WithNext :
          OpenCall(RowPairNew(data[row_index], ProposedRow, row_index + M.row_offset - 1,
                              "Unknown"), k)

(* the rows the two fixed-point loops of compute_row leave, before the pass
   under strategy Zero *)
RowsAfterPass1(l1) ==
    IF l1.err THEN l1.st.data
    ELSE LoopUntilNoProgress(M, l1.st, row_index, IdentitiesWithNextRef(M)).st.data

RowsAfterLoops ==
    RowsAfterPass1(LoopUntilNoProgress(M, EnsureHasNextRow(M, St, row_index), row_index,
                                       IdentitiesWithoutNextRef(M)))

ZeroPassStep ==
    (pc = "normal" /\ NormalModeDue /\ AssertHasRow(St, row_index)) => data' = RowsAfterLoops

ZeroChecksStep ==
    (pc = "propose" /\ Looping /\ last'.ev = "accept") =>
        /\ \A i \in 1..row_index : data'[i] = data[i]
        /\ data'[row_index + 1] = ProposedRow

OpenCallStep ==
    (pc = "propose" /\ Looping /\ ProposedHasOpenCall) => last'.ev = "reject"

(* C39 (as claimed): evaluation under strategy Zero changes no cell of any
   row: the rows after compute_row are the rows its two fixed-point loops
   leave, and an accepted proposal leaves the rows before it as they are and
   stores the proposed row as it is; a plookup or permutation that is not
   complete is an error under strategy Zero, in the zero pass and in the
   checks of try_proposed_row, so that a proposed row with an open machine
   call is rejected. *)
C39_ZeroFrame == [][ZeroPassStep /\ ZeroChecksStep /\ OpenCallStep]_vars

(* compute_row of a primary machine: a machine call that is open on the rows
   the loops leave makes the pass under strategy Zero fail *)
ComputedHasOpenCall ==
    \E k \in AllIdentities :
        OpenCall(RowPairNew(data'[row_index + 1], data'[row_index + 2],
                            row_index + M.row_offset, "Unknown"), k)

ZeroPassCallStep ==
    (pc = "normal" /\ NormalModeDue /\ AssertHasRow(St, row_index) /\ IsPrimary
        /\ ComputedHasOpenCall) => pc' = "panic"

(* C39 (amended): evaluation under strategy Zero changes no cell of any row,
   in the zero pass of compute_row and in both checks of try_proposed_row; in
   the zero pass of compute_row a plookup or permutation that is not complete
   is reported as an error rather than forwarded to the machine.  (The checks
   of try_proposed_row hand every identity to process_identity.) *)
C39_ZeroFrameInPass == [][ZeroPassStep /\ ZeroChecksStep /\ ZeroPassCallStep]_vars

(* the zero pass meets an open lookup: the row is reported as underconstrained
   and x is left Unknown *)
C39_Witness ==
    /\ M = OpenLookup /\ result = "underconstrained"
    /\ last = [ev |-> "compute", row |-> 0]
    /\ data[1]["x"] = Unknown

(* a proposed row with an open lookup has been accepted *)
C39_WitnessAccepted ==
    /\ M = LookupAtLoopStart
    /\ last = [ev |-> "accept", row |-> LoopCheckInterval]
    /\ data[LoopCheckInterval + 1]["x"] = Unknown


(* C40 (as claimed): with an outer query run reports a complete result only
   when it returns at a row whose latch is one with the outer query complete;
   a run in which the latch never is one does not report complete. *)
C40_CompleteOnlyAtLatch ==
    (M.has_outer /\ result = "complete") =>
        /\ pc = "returned"
        /\ LatchValue(M, St, row_index) = "true"
        /\ IsComplete(left)

(* run has gone through all rows of a machine with an outer query: the latch
   was zero on every row, the outer query is still open, the result complete *)
C40_CompleteWithoutLatch ==
    /\ M = LatchNever /\ pc = "done" /\ result = "complete"
    /\ ~IsComplete(left) /\ outer_assignments = <<>>
    /\ \A r \in 0..(M.degree - 1) : LatchValue(M, St, r) = "false"

(***************************************************************************)
(* Periodic finalization                                                   *)
(***************************************************************************)
(* the iterations whose top has been passed, and the finalizations due in them *)
IterationsStarted == IF pc \in {"top", "done", "generated"} THEN row_index ELSE row_index + 1

FinalizationsDue == IterationsStarted \div FinalizeInterval

(* the row index r of the k-th finalization: (r + 1) = k * 10,000 *)
FinalizationRow(k) == k * FinalizeInterval - 1

RangesAdjacent ==
    \A k \in DOMAIN finalized :
        /\ finalized[k].from = IF k = 1 THEN 1 ELSE finalized[k - 1].to
        /\ finalized[k].to = FinalizationRow(k) - MAX_PERIOD

RangesDisjoint ==
    \A j, k \in DOMAIN finalized :
        j < k => \A r \in {finalized[k].from, finalized[k].to - 1} : ~IsFinalized(<< finalized[j] >>, r)

(* C33: run finalizes exactly at the row indices r with (r + 1) divisible by
   10,000, and then the range [finalize_start, r - MAX_PERIOD), where
   finalize_start is 1 at first and the end of the previous range afterwards;
   so row 0 and the MAX_PERIOD rows before the current row are never
   finalized, the ranges are disjoint and adjacent, and no row is finalized
   twice. *)
C33_Finalization ==
    /\ Len(finalized) = FinalizationsDue
    /\ RangesAdjacent
    /\ finalize_start = IF finalized = <<>> THEN 1 ELSE finalized[Len(finalized)].to
    /\ ~IsFinalized(finalized, 0)
    /\ \A q \in 1..MAX_PERIOD : ~IsFinalized(finalized, row_index - q)
    /\ RangesDisjoint
    /\ \A k \in DOMAIN finalized : finalized[k].from < finalized[k].to

C33_Witness ==
    /\ row_index = FinalizationRow(2) /\ pc = "propose"
    /\ finalized = << [from |-> 1, to |-> FinalizationRow(1) - MAX_PERIOD],
                      [from |-> FinalizationRow(1) - MAX_PERIOD,
                       to |-> FinalizationRow(2) - MAX_PERIOD] >>
    /\ finalize_start = FinalizationRow(2) - MAX_PERIOD
    /\ Len(data) >= row_index

(* C37: once a range is finalized, no row in it is accessed again during run:
   not by loop detection, not by the proposal in looping mode, not by the
   re-computation of the previous row after a rejected proposal, and not by
   the rollback of an input. *)
C37_FinalizedUntouched == ~TouchesFinalized(finalized, accessed)

(* loop detection on row 10,000 compares a third pair of rows for period 3 *)
C37_LoopDetectionReadsFinalized ==
    /\ pc = "panic" /\ result = "row_finalized" /\ ~M.has_outer
    /\ row_index = FinalizeInterval
    /\ row_index - 2 * (MAX_PERIOD - 1) \in accessed
    /\ IsFinalized(finalized, row_index - 2 * (MAX_PERIOD - 1))

(* an input is assigned again on row 10,000 and reset on the rows from row 0 on *)
C37_RollbackWritesFinalized ==
    /\ pc = "panic" /\ result = "row_finalized" /\ M.has_outer
    /\ row_index = FinalizeInterval
    /\ \A r \in 0..(row_index - 1) : r \in accessed
    /\ psi["x"] = row_index

====
